---- MODULE Spec2Model ----
(***************************************************************************)
(* The tiered AI-response router (Server/server.ai-router.js, AIRouter)    *)
(* and its cost-guarding cache (Server/server-cost-guard.js, CostGuard).   *)
(*                                                                         *)
(* JavaScript strings are sequences of one-character strings, so that      *)
(* toLowerCase, includes, replace, template literals and JSON.stringify    *)
(* are computed as the code computes them.  Confidences are in hundredths  *)
(* (0.7 is 70).  The clock is Date.now() in whole seconds.                 *)
(***************************************************************************)
EXTENDS Integers, Sequences, FiniteSets, TLC

(***************************************************************************)
(* Bounds of the model.                                                    *)
(***************************************************************************)
\* calls started, clock advances and calls in flight at once, in Spec
MaxCalls == 2
MaxAdvances == 1
MaxInFlight == 2
\* calls started in SeqSpec, where calls are made one after the other
MaxSeqCalls == 4
\* calls in a run of route calls over every request
MaxRuleCalls == 2
\* operations in a run of calls made on the guard directly
MaxGuardOps == 3
\* route calls started in ProviderSpec
MaxProviderCalls == 2
\* calls of the escalation predicates in PredicateSpec
MaxPredicateCalls == 2
\* operations called in AdminSpec
MaxAdminOps == 3
\* constructions and route calls in SingletonSpec
MaxSingletonOps == 4

(***************************************************************************)
(* JavaScript strings.                                                     *)
(***************************************************************************)
Upper == <<"A","B","C","D","E","F","G","H","I","J","K","L","M",
           "N","O","P","Q","R","S","T","U","V","W","X","Y","Z">>
Lower == <<"a","b","c","d","e","f","g","h","i","j","k","l","m",
           "n","o","p","q","r","s","t","u","v","w","x","y","z">>

\* String.prototype.toLowerCase
toLowerCase(s) ==
  [i \in 1..Len(s) |->
     IF \E k \in 1..Len(Upper) : Upper[k] = s[i]
     THEN Lower[CHOOSE k \in 1..Len(Upper) : Upper[k] = s[i]]
     ELSE s[i]]

\* String.prototype.includes
includes(s, sub) ==
  \E i \in 0..(Len(s) - Len(sub)) : SubSeq(s, i + 1, i + Len(sub)) = sub

\* String.prototype.replace(pattern, replacement) with one-character string
\* arguments: only the first occurrence is replaced.
replace(s, pat, rep) ==
  IF \E i \in 1..Len(s) : s[i] = pat
  THEN LET first == CHOOSE i \in 1..Len(s) :
                      s[i] = pat /\ \A j \in 1..(i - 1) : s[j] # pat
       IN  [i \in 1..Len(s) |-> IF i = first THEN rep ELSE s[i]]
  ELSE s

(***************************************************************************)
(* JavaScript values passed as task, input and options, and the outcome    *)
(* of an evaluation: a value or a thrown exception.                        *)
(***************************************************************************)
Ok(v) == [thrown |-> FALSE, v |-> v]
Throw(e) == [thrown |-> TRUE, v |-> e]

JStr(s) == [t |-> "string", s |-> s]
JNull == [t |-> "null"]
JSymbol == [t |-> "symbol"]
\* a plain object; fields is a sequence of <<key, value>> in insertion order
JObj(fields) == [t |-> "object", fields |-> fields]
\* an object one of whose properties refers back to the object itself
JCircular == [t |-> "circular"]
\* a client record of the repository
JClient(needs, urgency) == [t |-> "client", needs |-> needs, urgency |-> urgency]
Undefined == [t |-> "undefined"]

S_null == <<"n","u","l","l">>
S_undefined == <<"u","n","d","e","f","i","n","e","d">>
S_objectObject == <<"[","o","b","j","e","c","t"," ","O","b","j","e","c","t","]">>

\* ToString as applied by a template literal `${v}`
ToStringJS(v) ==
  CASE v.t = "string" -> Ok(v.s)
    [] v.t = "null" -> Ok(S_null)
    [] v.t = "undefined" -> Ok(S_undefined)
    [] v.t = "symbol" -> Throw([error |-> "TypeError"])
    [] OTHER -> Ok(S_objectObject)

RECURSIVE JSONfields(_)
RECURSIVE JSONstringify(_)
\* the members of an object, comma separated; a thrown exception propagates
JSONfields(fields) ==
  IF fields = <<>> THEN Ok(<<>>)
  ELSE LET head == JSONstringify(fields[1][2])
           rest == JSONfields(Tail(fields))
       IN  IF head.thrown THEN head
           ELSE IF rest.thrown THEN rest
           ELSE Ok(<<"\"">> \o fields[1][1] \o <<"\"", ":">> \o head.v
                   \o (IF Tail(fields) = <<>> THEN <<>> ELSE <<",">>) \o rest.v)

\* JSON.stringify
JSONstringify(v) ==
  CASE v.t = "string" -> Ok(<<"\"">> \o v.s \o <<"\"">>)
    [] v.t = "null" -> Ok(S_null)
    [] v.t = "circular" -> Throw([error |-> "TypeError"])
    [] v.t = "object" ->
         LET inner == JSONfields(v.fields)
         IN  IF inner.thrown THEN inner ELSE Ok(<<"{">> \o inner.v \o <<"}">>)

(***************************************************************************)
(* Configuration objects.  A configuration is a function from the names    *)
(* of the keys it has to their values, so that an absent key, the spread   *)
(* {...defaults, ...config} and `config.K || d` are what they are in the   *)
(* code.                                                                   *)
(***************************************************************************)
\* { ...a, ...b }
Spread(a, b) ==
  [k \in (DOMAIN a) \cup (DOMAIN b) |-> IF k \in DOMAIN b THEN b[k] ELSE a[k]]

\* config[k] || d, for a numeric key (absent and 0 are falsy)
NumOr(config, k, d) ==
  IF k \in DOMAIN config /\ config[k] # 0 THEN config[k] ELSE d

DefaultMaxDailyTokens == 10000
DefaultMaxCheapTokens == 256
DefaultMaxExpensiveTokens == 512
DefaultTTL == 3600
DefaultEstimatedTokens == 100
DefaultFaqTTL == 86400
DefaultTriageTTL == 7200
OtherTaskTTL == 3600
SecondsPerDay == 86400
ReviewDays == 30
EscalateBelow == 70

\* CostGuard.constructor: this.config
GuardConfig(config) ==
  Spread([maxDailyTokens |-> DefaultMaxDailyTokens,
          maxCheapTokens |-> NumOr(config, "AI_MAX_TOKENS_CHEAP", DefaultMaxCheapTokens),
          maxExpensiveTokens |-> NumOr(config, "AI_MAX_TOKENS_EXPENSIVE", DefaultMaxExpensiveTokens),
          defaultTTL |-> DefaultTTL],
         config)

\* an enabled flag that looks at AI_ENABLE alone
Enabled_IgnoresKey(config) ==
  "AI_ENABLE" \in DOMAIN config /\ config["AI_ENABLE"]

\* AIRouter.constructor: the truthiness of config.AI_ENABLE && config.OPENAI_API_KEY
\* (AI_ENABLE is a boolean, OPENAI_API_KEY a string, '' being falsy)
Enabled(config) ==
  /\ "AI_ENABLE" \in DOMAIN config /\ config["AI_ENABLE"]
  /\ "OPENAI_API_KEY" \in DOMAIN config /\ config["OPENAI_API_KEY"] # <<>>

\* new Date(ms).toDateString(): the calendar day of the clock, in the fixed local
\* time zone; the clock is in seconds since a local midnight
toDateString(t) == t \div SecondsPerDay

(***************************************************************************)
(* The rules tier.                                                         *)
(***************************************************************************)
\* this.faqRules, in insertion order (the order of Object.entries)
faqRules == <<
  [category |-> <<"h","o","u","s","i","n","g">>, name |-> "housing",
   response |-> "For housing assistance, you may qualify for rapid rehousing, emergency shelter, or rental assistance. Eligibility typically requires proof of homelessness or housing instability."],
  [category |-> <<"e","m","p","l","o","y","m","e","n","t">>, name |-> "employment",
   response |-> "Employment services include job training, resume help, and placement assistance. Most programs are free and available regardless of work history."],
  [category |-> <<"m","e","n","t","a","l","-","h","e","a","l","t","h">>, name |-> "mental-health",
   response |-> "Mental health services include counseling, crisis support, and medication assistance. Many services are available on a sliding scale."],
  [category |-> <<"v","e","t","e","r","a","n","s">>, name |-> "veterans",
   response |-> "Veterans have access to specialized housing, healthcare, and employment programs through VA and community partners."],
  [category |-> <<"s","u","b","s","t","a","n","c","e","-","a","b","u","s","e">>, name |-> "substance-abuse",
   response |-> "Substance abuse support includes outpatient counseling, residential treatment, and harm reduction services."],
  [category |-> <<"m","e","d","i","c","a","l">>, name |-> "medical",
   response |-> "Medical services include free clinics, insurance enrollment, and specialty care referrals."],
  [category |-> <<"f","o","o","d">>, name |-> "food",
   response |-> "Food assistance includes food banks, CalFresh (SNAP), and meal programs at community centers."],
  [category |-> <<"l","e","g","a","l">>, name |-> "legal",
   response |-> "Legal aid includes help with housing court, benefits appeals, and family law matters."],
  [category |-> <<"u","t","i","l","i","t","i","e","s">>, name |-> "utilities",
   response |-> "Utility assistance programs can help with past-due bills and ongoing payment support."],
  [category |-> <<"t","r","a","n","s","p","o","r","t","a","t","i","o","n">>, name |-> "transportation",
   response |-> "Transportation help includes bus passes, rides to appointments, and vehicle repair assistance."] >>

S_help == <<"h","e","l","p">>
S_hello == <<"h","e","l","l","o">>
S_start == <<"s","t","a","r","t">>
S_housing == <<"h","o","u","s","i","n","g">>
S_employment == <<"e","m","p","l","o","y","m","e","n","t">>
S_medical == <<"m","e","d","i","c","a","l">>
S_mentalHealth == <<"m","e","n","t","a","l","-","h","e","a","l","t","h">>
S_substanceAbuse == <<"s","u","b","s","t","a","n","c","e","-","a","b","u","s","e">>
S_general == <<"g","e","n","e","r","a","l">>
S_high == <<"h","i","g","h">>
S_critical == <<"c","r","i","t","i","c","a","l">>
S_medium == <<"m","e","d","i","u","m">>

GreetingResponse == "I can help you understand what services are available. What kind of help do you need? I can assist with housing, employment, healthcare, food, or other services."
ClarifyResponse == "I'd like to help you find the right resources. Could you tell me more specifically what kind of assistance you're looking for?"

\* A RouteResult: the fields the router itself reads (uncertain, confidence,
\* source) and, in body, the task-specific fields.  An absent `uncertain` is
\* FALSE (undefined is falsy), an absent source is "undefined".
Result(uncertain, confidence, source, body) ==
  [uncertain |-> uncertain, confidence |-> confidence, source |-> source, body |-> body]

\* the index of the first FAQ category matched by the lower-cased query, 0 if none
FaqMatch(query) ==
  LET hit(i) == \/ includes(query, faqRules[i].category)
                \/ includes(query, replace(faqRules[i].category, "-", " "))
  IN  IF \E i \in 1..Len(faqRules) : hit(i)
      THEN CHOOSE i \in 1..Len(faqRules) : hit(i) /\ \A j \in 1..(i - 1) : ~hit(j)
      ELSE 0

\* a navigatorRules that tries the greeting words before the categories
navigatorRules_GreetingFirst(input) ==
  IF input.t # "string" THEN Throw([error |-> "TypeError"])
  ELSE
    LET query == toLowerCase(input.s)
        m == FaqMatch(query)
    IN  IF includes(query, S_help) \/ includes(query, S_hello) \/ includes(query, S_start)
        THEN Ok(Result(FALSE, 80, "rules",
                       [response |-> GreetingResponse, category |-> "general"]))
        ELSE IF m # 0
        THEN Ok(Result(FALSE, 90, "rules",
                       [response |-> faqRules[m].response, category |-> faqRules[m].name]))
        ELSE Ok(Result(TRUE, 40, "undefined", [response |-> ClarifyResponse]))

\* AIRouter.navigatorRules
navigatorRules(input) ==
  IF input.t # "string" THEN Throw([error |-> "TypeError"])  \* input.toLowerCase is not a function
  ELSE
    LET query == toLowerCase(input.s)
        m == FaqMatch(query)
    IN  IF m # 0
        THEN Ok(Result(FALSE, 90, "rules",
                       [response |-> faqRules[m].response, category |-> faqRules[m].name]))
        ELSE IF includes(query, S_help) \/ includes(query, S_hello) \/ includes(query, S_start)
        THEN Ok(Result(FALSE, 80, "rules",
                       [response |-> GreetingResponse, category |-> "general"]))
        ELSE Ok(Result(TRUE, 40, "undefined", [response |-> ClarifyResponse]))

S_urgent == <<"u","r","g","e","n","t">>

\* Array.prototype.includes on an array of strings
arrayIncludes(arr, x) == \E i \in 1..Len(arr) : arr[i] = x

\* the needs.forEach loop of triageRules: one recommendation / next step per
\* recognised need, in the order of the needs
RECURSIVE MediumRecommendations(_)
MediumRecommendations(needs) ==
  IF needs = <<>> THEN <<>>
  ELSE (CASE needs[1] = S_housing -> <<"Housing assessment and application">>
          [] needs[1] = S_employment -> <<"Job readiness assessment">>
          [] needs[1] = S_medical -> <<"Healthcare enrollment assistance">>
          [] OTHER -> <<>>) \o MediumRecommendations(Tail(needs))

RECURSIVE MediumNextSteps(_)
MediumNextSteps(needs) ==
  IF needs = <<>> THEN <<>>
  ELSE (CASE needs[1] = S_housing -> <<"Complete housing intake form">>
          [] needs[1] = S_employment -> <<"Schedule employment counseling">>
          [] needs[1] = S_medical -> <<"Schedule medical intake appointment">>
          [] OTHER -> <<>>) \o MediumNextSteps(Tail(needs))

\* client.needs || [] and client.urgency || 'medium'; a string has neither property
NeedsOf(client) == IF client.t = "client" THEN client.needs ELSE <<>>
UrgencyOf(client) ==
  IF client.t = "client" /\ client.urgency # <<>> THEN client.urgency ELSE S_medium

\* AIRouter.triageRules
triageRules(client) ==
  IF client.t \in {"null", "undefined"} THEN Throw([error |-> "TypeError"])
  ELSE
    LET needs == NeedsOf(client)
        urgency == UrgencyOf(client)
    IN  IF (urgency = S_high \/ urgency = S_critical) /\ arrayIncludes(needs, S_housing)
        THEN Ok(Result(FALSE, 95, "rules",
               [priority |-> S_urgent,
                recommendations |-> <<"Emergency shelter placement needed within 24 hours",
                                      "Rapid rehousing assessment required",
                                      "Connect with housing navigator immediately">>,
                nextSteps |-> <<"Schedule emergency housing meeting",
                                "Gather housing documents",
                                "Contact emergency shelter">>]))
        ELSE IF /\ (urgency = S_high \/ urgency = S_critical)
                /\ (arrayIncludes(needs, S_mentalHealth) \/ arrayIncludes(needs, S_substanceAbuse))
        THEN Ok(Result(FALSE, 95, "rules",
               [priority |-> S_urgent,
                recommendations |-> <<"Crisis assessment required",
                                      "Mental health evaluation needed",
                                      "Safety planning essential">>,
                nextSteps |-> <<"Schedule crisis assessment",
                                "Provide crisis hotline numbers",
                                "Create safety plan">>]))
        ELSE Ok(Result(FALSE, 80, "rules",
               [priority |-> urgency,
                recommendations |-> MediumRecommendations(needs),
                nextSteps |-> MediumNextSteps(needs)]))

\* this.careplanTemplates
careplanTemplates ==
  [housing |->
     [name |-> "housing-focused",
      goals |-> <<"Secure stable housing within 90 days", "Maintain housing stability">>,
      tasks |-> <<"Complete housing application", "Gather required documents", "Attend housing appointments">>,
      resources |-> <<"Rapid Rehousing Program", "Housing Authority waitlist", "Emergency rental assistance">>],
   employment |->
     [name |-> "employment-focused",
      goals |-> <<"Obtain sustainable employment", "Increase job skills">>,
      tasks |-> <<"Update resume", "Apply for job training", "Attend job interviews">>,
      resources |-> <<"WorkForce Development", "One-Stop Career Center", "Skills training programs">>],
   health |->
     [name |-> "health-focused",
      goals |-> <<"Establish primary care", "Manage chronic conditions">>,
      tasks |-> <<"Schedule medical appointment", "Apply for health insurance", "Follow medication schedule">>,
      resources |-> <<"Community Health Center", "Medi-Cal enrollment", "Pharmacy assistance">>]]

\* AIRouter.careplanRules, called when the clock reads now
careplanRules(client, now) ==
  IF client.t \in {"null", "undefined"} THEN Throw([error |-> "TypeError"])
  ELSE
    LET needs == NeedsOf(client)
        primaryNeed == IF needs # <<>> /\ needs[1] # <<>> THEN needs[1] ELSE S_general
        template ==
          IF includes(primaryNeed, S_employment) THEN careplanTemplates.employment
          ELSE IF includes(primaryNeed, S_medical) \/ includes(primaryNeed, S_mentalHealth)
          THEN careplanTemplates.health
          ELSE careplanTemplates.housing
    IN  Ok(Result(FALSE, 80, "rules",
           [goals |-> template.goals,
            tasks |-> template.tasks,
            resources |-> template.resources,
            timeline |-> "90 days",
            reviewDate |-> now + ReviewDays * SecondsPerDay,
            customizable |-> TRUE]))

\* AIRouter.tryRulesFirst
tryRulesFirst(task, input, now) ==
  CASE task = "navigator" -> navigatorRules(input)
    [] task = "triage" -> triageRules(input)
    [] task = "careplan" -> careplanRules(input, now)
    [] OTHER -> Ok(Result(TRUE, 30, "undefined", [none |-> TRUE]))

\* the operation tryCheapModel passes to withBudget: the value it resolves with
\* after its timer
CheapModelResult(task, config) ==
  Result(FALSE, 70, "cheap-model",
         [response |-> <<"Enhanced response for ", task, " (cheap model)">>,
          tokens |-> IF "AI_MAX_TOKENS_CHEAP" \in DOMAIN config
                     THEN <<config["AI_MAX_TOKENS_CHEAP"]>> ELSE <<>>])

\* the operation tryExpensiveModel passes to withBudget
ExpensiveModelResult(task, config) ==
  Result(FALSE, 95, "expensive-model",
         [response |-> <<"Detailed response for ", task, " (expensive model)">>,
          tokens |-> IF "AI_MAX_TOKENS_EXPENSIVE" \in DOMAIN config
                     THEN <<config["AI_MAX_TOKENS_EXPENSIVE"]>> ELSE <<>>])

\* a shouldEscalate with the comparison turned round
shouldEscalate_Inverted(result) == result.uncertain \/ result.confidence > EscalateBelow

\* an escalation predicate whose threshold is inclusive
shouldEscalate_Inclusive(result) ==
  result.uncertain \/ result.confidence <= EscalateBelow

\* A value handed to an escalation predicate is null, undefined, a string, or
\* an object: a record of the properties it has (a RouteResult is one).
\* !v
Falsy(v) ==
  /\ "t" \in DOMAIN v
  /\ v.t \in {"null", "undefined"} \/ (v.t = "string" /\ v.s = <<>>)
\* typeof v === 'object', for a v that is not null
IsObject(v) == "t" \notin DOMAIN v
\* v[f] is truthy, for a boolean property f (absent: undefined, falsy)
TruthyProp(v, f) == IsObject(v) /\ f \in DOMAIN v /\ v[f]
\* v.confidence < 0.7 (undefined < 0.7 is false)
ConfidenceBelow(v) ==
  IsObject(v) /\ "confidence" \in DOMAIN v /\ v.confidence < EscalateBelow

\* AIRouter.shouldEscalate, lines 278-281
shouldEscalate(result) ==
  IF Falsy(result) THEN TRUE
  ELSE TruthyProp(result, "uncertain") \/ ConfidenceBelow(result)

\* CostGuard.shouldEscalate, lines 55-69
CostGuard_shouldEscalate(result) ==
  IF Falsy(result) \/ ~IsObject(result) THEN FALSE
  ELSE IF ConfidenceBelow(result) THEN TRUE
  ELSE IF TruthyProp(result, "uncertain") \/ TruthyProp(result, "needsMoreContext")
  THEN TRUE
  ELSE FALSE

\* a getTTL with no case for careplan
getTTL_CareplanDefault(task, config) ==
  CASE task = "navigator" -> NumOr(config, "CACHE_TTL_FAQ", DefaultFaqTTL)
    [] task = "triage" -> NumOr(config, "CACHE_TTL_TRIAGE", DefaultTriageTTL)
    [] OTHER -> OtherTaskTTL

\* AIRouter.getTTL
getTTL(task, config) ==
  CASE task = "navigator" -> NumOr(config, "CACHE_TTL_FAQ", DefaultFaqTTL)
    [] task = "triage" -> NumOr(config, "CACHE_TTL_TRIAGE", DefaultTriageTTL)
    [] task = "careplan" -> NumOr(config, "CACHE_TTL_TRIAGE", DefaultTriageTTL)
    [] OTHER -> OtherTaskTTL

\* a getFallbackResponse with no case for navigator
getFallbackResponse_NoNavigator(task) ==
  CASE task = "triage" ->
         Result(FALSE, 50, "fallback",
           [priority |-> S_medium,
            recommendations |-> <<"General assessment needed", "Schedule intake appointment">>,
            nextSteps |-> <<"Contact caseworker", "Gather documentation">>])
    [] task = "careplan" ->
         Result(FALSE, 50, "fallback",
           [goals |-> <<"Stabilize current situation", "Connect with appropriate services">>,
            tasks |-> <<"Meet with caseworker", "Complete assessments">>,
            resources |-> <<"Case management services", "Community resources">>])
    [] OTHER ->
         Result(FALSE, 30, "fallback",
           [response |-> "Service temporarily unavailable. Please contact your caseworker."])

\* AIRouter.getFallbackResponse
getFallbackResponse(task) ==
  CASE task = "navigator" ->
         Result(FALSE, 50, "fallback",
           [response |-> "I'm here to help connect you with services. Please let a caseworker know what specific assistance you need."])
    [] task = "triage" ->
         Result(FALSE, 50, "fallback",
           [priority |-> S_medium,
            recommendations |-> <<"General assessment needed", "Schedule intake appointment">>,
            nextSteps |-> <<"Contact caseworker", "Gather documentation">>])
    [] task = "careplan" ->
         Result(FALSE, 50, "fallback",
           [goals |-> <<"Stabilize current situation", "Connect with appropriate services">>,
            tasks |-> <<"Meet with caseworker", "Complete assessments">>,
            resources |-> <<"Case management services", "Community resources">>])
    [] OTHER ->
         Result(FALSE, 30, "fallback",
           [response |-> "Service temporarily unavailable. Please contact your caseworker."])

(***************************************************************************)
(* The request fingerprint.                                                *)
(***************************************************************************)
\* the task names as strings
TaskChars(task) ==
  CASE task = "navigator" -> <<"n","a","v","i","g","a","t","o","r">>
    [] task = "triage" -> <<"t","r","i","a","g","e">>
    [] task = "careplan" -> <<"c","a","r","e","p","l","a","n">>
    [] task = "analytics" -> <<"a","n","a","l","y","t","i","c","s">>

\* crypto.createHash('md5').update(s).digest('hex'): the digest of s; two
\* digests are equal exactly when the digested strings are (no MD5 collision
\* among the strings of the model)
md5(s) == [md5 |-> s]

\* CostGuard.hashRequest(`${task}:${input}`, options), the call of route; the
\* template literal always yields a string, so `normalized` is that string
hashRequest(task, input, options) ==
  LET str == ToStringJS(input)
      optionsStr == JSONstringify(options)
  IN  IF str.thrown THEN str
      ELSE IF optionsStr.thrown THEN optionsStr
      ELSE Ok(md5(TaskChars(task) \o <<":">> \o str.v \o optionsStr.v))

(***************************************************************************)
(* The Budget Guard and its cache (CostGuard), as functions of the state   *)
(* they read and write.                                                    *)
(***************************************************************************)
\* CostGuard.constructor: this.stats, constructed when the clock reads now
InitialStats(now) ==
  [cacheHits |-> 0, cacheMisses |-> 0, cheapCalls |-> 0, expensiveCalls |-> 0,
   totalTokens |-> 0, dailyTokens |-> 0, lastResetDate |-> toDateString(now)]

\* a cacheGet that serves an entry up to and including its expiry
cacheGet_Inclusive(c, st, key, now) ==
  IF key \in DOMAIN c /\ c[key].expiry >= now
  THEN [hit |-> TRUE, data |-> c[key].data, cache |-> c,
        stats |-> [st EXCEPT !.cacheHits = @ + 1]]
  ELSE [hit |-> FALSE, data |-> [none |-> TRUE],
        cache |-> [k \in (DOMAIN c) \ {key} |-> c[k]],
        stats |-> [st EXCEPT !.cacheMisses = @ + 1]]

\* CostGuard.cacheGet: the payload (hit) or null, the cache and the counters
cacheGet(c, st, key, now) ==
  IF key \in DOMAIN c /\ c[key].expiry > now
  THEN [hit |-> TRUE, data |-> c[key].data, cache |-> c,
        stats |-> [st EXCEPT !.cacheHits = @ + 1]]
  ELSE [hit |-> FALSE, data |-> [none |-> TRUE],
        cache |-> [k \in (DOMAIN c) \ {key} |-> c[k]],
        stats |-> [st EXCEPT !.cacheMisses = @ + 1]]

\* a cacheSet that adds the TTL to the clock without converting it to the
\* clock's unit (the `* 1000` of line 50 left out)
cacheSet_Unscaled(c, key, data, ttlSeconds, gcfg, now) ==
  LET ttl == IF ttlSeconds # 0 THEN ttlSeconds ELSE gcfg["defaultTTL"]
      entry == [data |-> data, expiry |-> now + (ttl \div 1000)]
  IN  [k \in (DOMAIN c) \cup {key} |-> IF k = key THEN entry ELSE c[k]]

\* a cacheSet that leaves an entry that has not expired in place
cacheSet_KeepsLive(c, key, data, ttlSeconds, gcfg, now) ==
  LET ttl == IF ttlSeconds # 0 THEN ttlSeconds ELSE gcfg["defaultTTL"]
      entry == [data |-> data, expiry |-> now + ttl]
  IN  IF key \in DOMAIN c /\ c[key].expiry > now THEN c
      ELSE [k \in (DOMAIN c) \cup {key} |-> IF k = key THEN entry ELSE c[k]]

\* CostGuard.cacheSet; ttlSeconds = 0 stands for a falsy ttlSeconds (null, 0).
\* The clock is in seconds, so Date.now() + ttl * 1000 is now + ttl.
cacheSet(c, key, data, ttlSeconds, gcfg, now) ==
  LET ttl == IF ttlSeconds # 0 THEN ttlSeconds ELSE gcfg["defaultTTL"]
      entry == [data |-> data, expiry |-> now + ttl]
  IN  [k \in (DOMAIN c) \cup {key} |-> IF k = key THEN entry ELSE c[k]]

\* a daily reset that clears the cumulative token counter as well
resetDailyCounters_AllTokens(st, now) ==
  IF st.lastResetDate # toDateString(now)
  THEN [st EXCEPT !.dailyTokens = 0, !.totalTokens = 0,
                  !.lastResetDate = toDateString(now)]
  ELSE st

\* a daily reset that clears the call counters as well
resetDailyCounters_CallCounters(st, now) ==
  IF st.lastResetDate # toDateString(now)
  THEN [st EXCEPT !.dailyTokens = 0, !.cheapCalls = 0, !.expensiveCalls = 0,
                  !.lastResetDate = toDateString(now)]
  ELSE st

\* CostGuard.resetDailyCountersIfNeeded
resetDailyCountersIfNeeded(st, now) ==
  IF st.lastResetDate # toDateString(now)
  THEN [st EXCEPT !.dailyTokens = 0, !.lastResetDate = toDateString(now)]
  ELSE st

\* a canMakeCall that refuses a call reaching the daily ceiling exactly
canMakeCall_Strict(st, gcfg, tokenCount, type, now) ==
  LET st1 == resetDailyCountersIfNeeded(st, now)
      maxTokens == IF type = "expensive" THEN gcfg["maxExpensiveTokens"]
                   ELSE gcfg["maxCheapTokens"]
  IN  [ok |-> /\ ~(st1.dailyTokens + tokenCount >= gcfg["maxDailyTokens"])
              /\ ~(tokenCount > maxTokens),
       stats |-> st1]

\* a canMakeCall that takes the ceiling of the other tier
canMakeCall_SwappedCeilings(st, gcfg, tokenCount, type, now) ==
  LET st1 == resetDailyCountersIfNeeded(st, now)
      maxTokens == IF type = "expensive" THEN gcfg["maxCheapTokens"]
                   ELSE gcfg["maxExpensiveTokens"]
  IN  [ok |-> /\ ~(st1.dailyTokens + tokenCount > gcfg["maxDailyTokens"])
              /\ ~(tokenCount > maxTokens),
       stats |-> st1]

\* CostGuard.canMakeCall: the answer and the counters after the lazy reset
canMakeCall(st, gcfg, tokenCount, type, now) ==
  LET st1 == resetDailyCountersIfNeeded(st, now)
      maxTokens == IF type = "expensive" THEN gcfg["maxExpensiveTokens"]
                   ELSE gcfg["maxCheapTokens"]
  IN  [ok |-> /\ ~(st1.dailyTokens + tokenCount > gcfg["maxDailyTokens"])
              /\ ~(tokenCount > maxTokens),
       stats |-> st1]

\* CostGuard.withBudget, lines 109-116: the usage tracked after the operation
\* has returned
\* a usage tracking that counts every call in both tier counters
TrackUsage_BothCounters(st, estimatedTokens, type) ==
  [st EXCEPT !.totalTokens = @ + estimatedTokens,
             !.dailyTokens = @ + estimatedTokens,
             !.expensiveCalls = @ + 1,
             !.cheapCalls = @ + 1]

TrackUsage(st, estimatedTokens, type) ==
  [st EXCEPT !.totalTokens = @ + estimatedTokens,
             !.dailyTokens = @ + estimatedTokens,
             !.expensiveCalls = IF type = "expensive" THEN @ + 1 ELSE @,
             !.cheapCalls = IF type = "expensive" THEN @ ELSE @ + 1]

\* a withBudget that tracks the usage in a finally block
withBudgetSettle_ChargesFailure(st, fn, estimatedTokens, type) ==
  [stats |-> TrackUsage(st, estimatedTokens, type), outcome |-> fn]

\* CostGuard.withBudget, lines 105-122: after the awaited operation has settled
\* with outcome fn (a value or a thrown error), the counters and what
\* withBudget settles with
withBudgetSettle(st, fn, estimatedTokens, type) ==
  IF fn.thrown THEN [stats |-> st, outcome |-> fn]
  ELSE [stats |-> TrackUsage(st, estimatedTokens, type), outcome |-> fn]

\* the error withBudget throws when canMakeCall answers false
BudgetExceeded(label, gcfg, st) ==
  [error |-> "Budget exceeded", label |-> label,
   limit |-> gcfg["maxDailyTokens"], used |-> st.dailyTokens]

\* a withBudget that starts the operation before it checks the budget
withBudgetEnter_InvokesFirst(st, gcfg, label, estimatedTokens, type, now) ==
  LET can == canMakeCall(st, gcfg, estimatedTokens, type, now)
  IN  IF ~can.ok
      THEN [admitted |-> FALSE, invoked |-> TRUE, stats |-> can.stats,
            error |-> BudgetExceeded(label, gcfg, can.stats)]
      ELSE [admitted |-> TRUE, invoked |-> TRUE, stats |-> can.stats,
            error |-> [none |-> TRUE]]

\* CostGuard.withBudget, lines 100-106: up to the await of the operation.
\* invoked tells whether fn() was called.
withBudgetEnter(st, gcfg, label, estimatedTokens, type, now) ==
  LET can == canMakeCall(st, gcfg, estimatedTokens, type, now)
  IN  IF ~can.ok
      THEN [admitted |-> FALSE, invoked |-> FALSE, stats |-> can.stats,
            error |-> BudgetExceeded(label, gcfg, can.stats)]
      ELSE [admitted |-> TRUE, invoked |-> TRUE, stats |-> can.stats,
            error |-> [none |-> TRUE]]

\* (x / y * 100).toFixed(1), in tenths (rounded to the nearest tenth); -1
\* stands for the NaN or Infinity of a zero y
PercentTenths(x, y) ==
  IF y = 0 THEN -1 ELSE (2 * 1000 * x + y) \div (2 * y)

\* CostGuard.getStats: the counters after the lazy reset it performs, and the
\* snapshot returned (rates in tenths of a percent, the cost in 1/10000)
\* a getStats that counts only the entries that have not expired
getStats_CountsLive(c, st, gcfg, now) ==
  LET st1 == resetDailyCountersIfNeeded(st, now)
      cacheTotal == st1.cacheHits + st1.cacheMisses
  IN  [stats |-> st1,
       ret |-> [stats |-> st1,
                cacheHitRate |-> IF cacheTotal > 0 THEN PercentTenths(st1.cacheHits, cacheTotal)
                                 ELSE 0,
                cacheSize |-> Cardinality({k \in DOMAIN c : c[k].expiry > now}),
                dailyBudgetUsed |-> PercentTenths(st1.dailyTokens, gcfg["maxDailyTokens"]),
                estimatedDailyCost |-> st1.dailyTokens]]

getStats(c, st, gcfg, now) ==
  LET st1 == resetDailyCountersIfNeeded(st, now)
      cacheTotal == st1.cacheHits + st1.cacheMisses
  IN  [stats |-> st1,
       ret |-> [stats |-> st1,
                cacheHitRate |-> IF cacheTotal > 0 THEN PercentTenths(st1.cacheHits, cacheTotal)
                                 ELSE 0,
                cacheSize |-> Cardinality(DOMAIN c),
                dailyBudgetUsed |-> PercentTenths(st1.dailyTokens, gcfg["maxDailyTokens"]),
                estimatedDailyCost |-> st1.dailyTokens]]

\* CostGuard.setEmergencyLimits: the new this.config, which it returns
setEmergencyLimits(gcfg, limits) == Spread(gcfg, limits)

(***************************************************************************)
(* The inputs of the model.                                                *)
(***************************************************************************)
S_sk == <<"s","k">>

\* The configurations the process may be started with: the one index.js
\* builds (every key present) with a lowered daily ceiling, with AI enabled,
\* with AI_ENABLE off, and with no provider credential; and a configuration
\* that leaves the token ceilings to the defaults of the code.
IndexConfig(aiEnable, key) ==
  [AI_ENABLE |-> aiEnable, OPENAI_API_KEY |-> key,
   CACHE_TTL_FAQ |-> 86400, CACHE_TTL_TRIAGE |-> 7200,
   AI_MAX_TOKENS_CHEAP |-> 256, AI_MAX_TOKENS_EXPENSIVE |-> 512]

Configs ==
  { Spread(IndexConfig(TRUE, S_sk), [maxDailyTokens |-> 512]),
    [AI_ENABLE |-> TRUE, OPENAI_API_KEY |-> S_sk, maxDailyTokens |-> 250],
    IndexConfig(FALSE, S_sk),
    IndexConfig(TRUE, <<>>) }

\* "I need help with housing" and "Mental Health"
Q_helpHousing ==
  <<"I"," ","n","e","e","d"," ","h","e","l","p"," ","w","i","t","h"," ">> \o S_housing
Q_MentalHealth == <<"M","e","n","t","a","l"," ","H","e","a","l","t","h">>

\* route(task, input, options) calls
Requests == <<
  [task |-> "navigator", input |-> JStr(<<"f","o","o","d">>), options |-> Undefined],
  [task |-> "navigator", input |-> JStr(<<"x","y","z">>), options |-> Undefined],
  [task |-> "analytics", input |-> JStr(<<"x","y","z">>), options |-> Undefined],
  [task |-> "triage", input |-> JClient(<<S_housing>>, S_critical), options |-> Undefined],
  [task |-> "navigator", input |-> JNull, options |-> Undefined],
  [task |-> "navigator", input |-> JStr(<<"x","y","z">>), options |-> JCircular],
  [task |-> "navigator", input |-> JStr(Q_helpHousing), options |-> Undefined],
  [task |-> "navigator", input |-> JStr(Q_MentalHealth), options |-> Undefined],
  [task |-> "navigator", input |-> JStr(S_hello), options |-> Undefined],
  [task |-> "triage", input |-> JClient(<<S_employment, S_housing>>, S_high), options |-> Undefined],
  [task |-> "triage", input |-> JClient(<<S_mentalHealth>>, S_critical), options |-> Undefined],
  [task |-> "triage", input |-> JClient(<<S_employment, S_medical>>, S_medium), options |-> Undefined],
  [task |-> "triage", input |-> JClient(<<S_housing>>, <<>>), options |-> Undefined],
  [task |-> "triage", input |-> JNull, options |-> Undefined],
  [task |-> "careplan", input |-> JClient(<<S_employment>>, <<>>), options |-> Undefined],
  [task |-> "careplan", input |-> JClient(<<S_medical, S_employment>>, <<>>), options |-> Undefined],
  [task |-> "careplan", input |-> JClient(<<S_housing, S_employment>>, <<>>), options |-> Undefined],
  [task |-> "careplan", input |-> JClient(<<S_mentalHealth>>, <<>>), options |-> Undefined],
  [task |-> "careplan", input |-> JClient(<<>>, <<>>), options |-> Undefined],
  [task |-> "careplan", input |-> JNull, options |-> Undefined] >>

\* the requests of the concurrent runs: the first six
CoreRequests == 1..6

\* withBudget(label, fn, estimatedTokens, type) calls made on the guard
\* directly: given tells whether estimatedTokens was passed, fn is what the
\* operation does when it is awaited
BudgetCalls == {
  [label |-> "a", given |-> TRUE, est |-> 256, type |-> "cheap", fn |-> Ok([value |-> "done"])],
  [label |-> "b", given |-> FALSE, est |-> 0, type |-> "cheap", fn |-> Throw([error |-> "OperationFailed"])],
  [label |-> "c", given |-> TRUE, est |-> 512, type |-> "expensive", fn |-> Ok([value |-> "done"])],
  [label |-> "d", given |-> TRUE, est |-> 300, type |-> "rules", fn |-> Ok([value |-> "done"])] }

\* cacheGet(key) and cacheSet(key, data, ttlSeconds) calls made on the guard
\* directly: given tells whether ttlSeconds was passed
K1 == md5(<<"k","1">>)
K2 == md5(<<"k","2">>)
CacheKeys == {K1, K2}
CacheSets == {
  [key |-> K1, data |-> [value |-> "p1"], given |-> TRUE, ttl |-> 86400],
  [key |-> K1, data |-> [value |-> "p2"], given |-> FALSE, ttl |-> 0],
  [key |-> K2, data |-> [value |-> "p1"], given |-> FALSE, ttl |-> 0],
  [key |-> K1, data |-> [value |-> "p2"], given |-> TRUE, ttl |-> 0] }

\* setEmergencyLimits(limits) calls
Limits == {
  [maxDailyTokens |-> 100],
  [maxCheapTokens |-> 1000, defaultTTL |-> 60] }

Slots == 1..MaxInFlight
Advances == {3600, 86400}

(***************************************************************************)
(* The state.                                                              *)
(***************************************************************************)
VARIABLES
  config,       \* AIRouter.config, the configuration the process was started with
  guardConfig,  \* CostGuard.config
  enabled,      \* AIRouter.enabled (its truthiness)
  cache,        \* CostGuard.cache: fingerprint -> [data, expiry]
  stats,        \* CostGuard.stats
  now,          \* the clock
  calls,        \* the calls in flight, one per slot
  last,         \* the call whose promise settled last, as it settled
  nCalls,       \* calls started so far
  nAdvances,    \* clock advances so far
  quiet,        \* history: the call in `last` is a route call that ran with no
                \*   other call in flight, and no call has started since
  aiRouterInstance  \* the router getAIRouter returns (its config and enabled
                \*   flag), Nothing while it is null; config and enabled are
                \*   those of the router the calls are made on

vars == <<config, guardConfig, enabled, cache, stats, now, calls, last, nCalls,
          nAdvances, quiet, aiRouterInstance>>

Nothing == [none |-> TRUE]
\* new Map()
EmptyCache == [k \in {} |-> Nothing]

\* A call.  pc is the await the call is suspended at: "rules" (route, awaiting
\* tryRulesFirst), "op" (withBudget, awaiting the operation), "ret" (route,
\* awaiting tryCheapModel / tryExpensiveModel whose withBudget has returned);
\* "idle" when the slot holds no call and "done" once the call's promise has
\* settled.  outcome and result are what the promise settled with.
\* History fields: hit (served from the cache), fallback (returned by the
\* catch of route), tiers (the tier resolvers invoked, in order), invoked
\* (withBudget called its operation), alone (no other call was in flight at
\* any time during the call), before (the counters when withBudget was
\* called), at (the clock when the call settled), id (the number of the call
\* among the calls started).
IdleCall ==
  [pc |-> "idle", kind |-> "none", req |-> 0, key |-> Nothing, pending |-> Nothing,
   label |-> <<>>, tier |-> "none", est |-> 0, fn |-> Nothing,
   outcome |-> "none", result |-> Nothing,
   hit |-> FALSE, fallback |-> FALSE, tiers |-> <<>>, invoked |-> FALSE,
   alone |-> TRUE, before |-> Nothing, at |-> 0, id |-> 0]

InFlight(s) == calls[s].pc # "idle"
\* a new call takes the first free slot
NextSlot(s) == ~InFlight(s) /\ \A t \in Slots : t < s => InFlight(t)
\* a continuation queued as a microtask: it runs before any timer fires
MicrotaskPending == \E s \in Slots : calls[s].pc \in {"rules", "ret"}

Init ==
  /\ config \in Configs
  /\ guardConfig = GuardConfig(config)
  /\ enabled = Enabled(config)
  /\ cache = EmptyCache
  /\ now = 0
  /\ stats = InitialStats(0)
  /\ calls = [s \in Slots |-> IdleCall]
  /\ last = IdleCall
  /\ nCalls = 0
  /\ nAdvances = 0
  /\ quiet = FALSE
  /\ aiRouterInstance = [config |-> config, enabled |-> enabled]

\* a call starts in slot s: the calls in flight are no longer alone
Overlap(s, c) ==
  [t \in Slots |->
     IF t = s THEN c
     ELSE IF InFlight(t) THEN [calls[t] EXCEPT !.alone = FALSE]
     ELSE calls[t]]
OthersInFlight(s) == \E t \in Slots \ {s} : InFlight(t)

\* the promise of call c settles
Settled(c, outcome, result) ==
  [c EXCEPT !.pc = "done", !.outcome = outcome, !.result = result,
            !.pending = Nothing, !.at = now]

\* route's catch block: the call resolves with the fallback of the task
Caught(c) ==
  [Settled(c, "resolved", getFallbackResponse(Requests[c.req].task))
     EXCEPT !.fallback = TRUE]

\* the call in flight in slot s settles as c
Return(s, c) ==
  /\ calls' = [calls EXCEPT ![s] = IdleCall]
  /\ last' = c
  /\ quiet' = (c.kind = "route" /\ c.alone)

\* a catch block that stores the fallback it returns
RouteCatch_Caching(s, c) ==
  /\ Return(s, Caught(c))
  /\ cache' = cacheSet(cache, c.key, getFallbackResponse(Requests[c.req].task),
                       getTTL(Requests[c.req].task, config), guardConfig, now)

\* a catch block that rethrows: the promise of route rejects
RouteCatch_Rethrows(s, c) ==
  /\ Return(s, Settled(c, "rejected", c.pending))
  /\ cache' = cache

\* route, lines 82-85: the catch block returns the fallback and stores nothing
RouteCatch(s, c) ==
  /\ Return(s, Caught(c))
  /\ cache' = cache

\* route, lines 76-80: cache the result and return it
CacheAndReturn(s, result) ==
  LET c == calls[s]
      task == Requests[c.req].task
  IN  /\ cache' = cacheSet(cache, c.key, result, getTTL(task, config), guardConfig, now)
      /\ Return(s, Settled(c, "resolved", result))
      /\ stats' = stats

\* a route that, refused a tier by the guard, caches and returns the result
\* it holds
TryModel_ReturnsHeld(s, tier) ==
  LET c == calls[s]
      task == Requests[c.req].task
      k == IF tier = "expensive" THEN "AI_MAX_TOKENS_EXPENSIVE" ELSE "AI_MAX_TOKENS_CHEAP"
      est == IF k \in DOMAIN config THEN config[k] ELSE DefaultEstimatedTokens
      label == <<tier, task>>
      e == withBudgetEnter(stats, guardConfig, label, est, tier, now)
  IN  /\ stats' = e.stats
      /\ IF e.admitted
         THEN /\ cache' = cache
              /\ calls' = [calls EXCEPT ![s] =
                   [c EXCEPT !.pc = "op", !.tier = tier, !.est = est, !.label = label,
                             !.fn = Ok(IF tier = "expensive"
                                       THEN ExpensiveModelResult(task, config)
                                       ELSE CheapModelResult(task, config)),
                             !.pending = Nothing, !.invoked = e.invoked,
                             !.tiers = Append(@, tier), !.before = stats]]
              /\ UNCHANGED <<last, quiet>>
         ELSE /\ cache' = cacheSet(cache, c.key, c.pending.v, getTTL(task, config),
                                  guardConfig, now)
              /\ Return(s, Settled(c, "resolved", c.pending.v))

\* tryCheapModel / tryExpensiveModel as called by route (this.enabled holds):
\* withBudget up to the await of the operation; a rejection by the guard
\* propagates to route's catch
TryModel(s, tier) ==
  LET c == calls[s]
      task == Requests[c.req].task
      k == IF tier = "expensive" THEN "AI_MAX_TOKENS_EXPENSIVE" ELSE "AI_MAX_TOKENS_CHEAP"
      \* an undefined estimatedTokens takes the default of the parameter
      est == IF k \in DOMAIN config THEN config[k] ELSE DefaultEstimatedTokens
      label == <<tier, task>>
      e == withBudgetEnter(stats, guardConfig, label, est, tier, now)
  IN  /\ stats' = e.stats
      /\ IF e.admitted
         THEN /\ cache' = cache
              /\ calls' = [calls EXCEPT ![s] =
                   [c EXCEPT !.pc = "op", !.tier = tier, !.est = est, !.label = label,
                             !.fn = Ok(IF tier = "expensive"
                                       THEN ExpensiveModelResult(task, config)
                                       ELSE CheapModelResult(task, config)),
                             !.pending = Nothing, !.invoked = e.invoked,
                             !.tiers = Append(@, tier), !.before = stats]]
              /\ UNCHANGED <<last, quiet>>
         ELSE RouteCatch(s, [c EXCEPT !.invoked = e.invoked, !.tier = tier, !.est = est,
                                      !.label = label, !.before = stats])

\* route(task, input, options), lines 52-64: fingerprint, cache lookup and,
\* on a miss, the call of tryRulesFirst whose promise route awaits
RouteStart(s, r) ==
  /\ NextSlot(s)
  /\ nCalls' = nCalls + 1
  /\ LET req == Requests[r]
         options == IF req.options = Undefined THEN JObj(<<>>) ELSE req.options
         h == hashRequest(req.task, req.input, options)
         c0 == [IdleCall EXCEPT !.kind = "route", !.req = r, !.id = nCalls + 1,
                               !.alone = ~OthersInFlight(s)]
     IN  IF h.thrown
         THEN \* the exception leaves route: its promise rejects
              /\ calls' = Overlap(s, IdleCall)
              /\ last' = Settled(c0, "rejected", h.v)
              /\ quiet' = c0.alone
              /\ UNCHANGED <<cache, stats>>
         ELSE LET g == cacheGet(cache, stats, h.v, now)
                  c1 == [c0 EXCEPT !.key = h.v]
              IN  /\ cache' = g.cache
                  /\ stats' = g.stats
                  /\ IF g.hit
                     THEN /\ calls' = Overlap(s, IdleCall)
                          /\ last' = [Settled(c1, "resolved", g.data) EXCEPT !.hit = TRUE]
                          /\ quiet' = c0.alone
                     ELSE /\ calls' = Overlap(s,
                               [c1 EXCEPT !.pc = "rules", !.tiers = <<"rules">>,
                                          !.pending = tryRulesFirst(req.task, req.input, now)])
                          /\ last' = last
                          /\ quiet' = FALSE
  /\ UNCHANGED <<aiRouterInstance, config, guardConfig, enabled, now, nAdvances>>

\* a route that escalates from the rules tier straight to the expensive tier
RouteAfterRules_SkipsCheap(s) ==
  /\ calls[s].kind = "route" /\ calls[s].pc = "rules"
  /\ LET c == calls[s]
     IN  IF c.pending.thrown
         THEN /\ RouteCatch(s, c)
              /\ stats' = stats
         ELSE IF shouldEscalate(c.pending.v) /\ enabled
         THEN TryModel(s, "expensive")
         ELSE CacheAndReturn(s, c.pending.v)
  /\ UNCHANGED <<aiRouterInstance, config, guardConfig, enabled, now, nCalls, nAdvances>>

\* route, lines 64-80, resumed with the outcome of tryRulesFirst
RouteAfterRules(s) ==
  /\ calls[s].kind = "route" /\ calls[s].pc = "rules"
  /\ LET c == calls[s]
     IN  IF c.pending.thrown
         THEN /\ RouteCatch(s, c)
              /\ stats' = stats
         ELSE IF shouldEscalate(c.pending.v) /\ enabled
         THEN TryModel(s, "cheap")
         ELSE CacheAndReturn(s, c.pending.v)
  /\ UNCHANGED <<aiRouterInstance, config, guardConfig, enabled, now, nCalls, nAdvances>>

\* a withBudget that reads the counters before it awaits the operation and
\* writes them back, updated, after it
TierOpDone_StaleRead(s) ==
  /\ calls[s].kind = "route" /\ calls[s].pc = "op"
  /\ ~MicrotaskPending
  /\ LET c == calls[s]
         w == withBudgetSettle([stats EXCEPT !.totalTokens = c.before.totalTokens,
                                             !.cheapCalls = c.before.cheapCalls,
                                             !.expensiveCalls = c.before.expensiveCalls],
                               c.fn, c.est, c.tier)
     IN  /\ stats' = w.stats
         /\ calls' = [calls EXCEPT ![s] = [c EXCEPT !.pc = "ret", !.pending = w.outcome]]
  /\ UNCHANGED <<aiRouterInstance, config, guardConfig, enabled, cache, now, last, nCalls, nAdvances,
                 quiet>>

\* the timer of a tier operation fires and withBudget (lines 106-118) resumes:
\* the usage is tracked and the result returned to tryCheapModel /
\* tryExpensiveModel, which route awaits
TierOpDone(s) ==
  /\ calls[s].kind = "route" /\ calls[s].pc = "op"
  /\ ~MicrotaskPending
  /\ LET c == calls[s]
         w == withBudgetSettle(stats, c.fn, c.est, c.tier)
     IN  /\ stats' = w.stats
         /\ calls' = [calls EXCEPT ![s] = [c EXCEPT !.pc = "ret", !.pending = w.outcome]]
  /\ UNCHANGED <<aiRouterInstance, config, guardConfig, enabled, cache, now, last, nCalls, nAdvances,
                 quiet>>

\* route, lines 68-80, resumed with the outcome of a tier
RouteAfterTier(s) ==
  /\ calls[s].kind = "route" /\ calls[s].pc = "ret"
  /\ LET c == calls[s]
     IN  IF c.pending.thrown
         THEN /\ RouteCatch(s, c)
              /\ stats' = stats
         ELSE IF c.tier = "cheap" /\ shouldEscalate(c.pending.v) /\ enabled
         THEN TryModel(s, "expensive")
         ELSE CacheAndReturn(s, c.pending.v)
  /\ UNCHANGED <<aiRouterInstance, config, guardConfig, enabled, now, nCalls, nAdvances>>

\* withBudget(label, fn, estimatedTokens, type) called on the guard directly,
\* lines 100-106
WithBudgetCall(s, b) ==
  /\ NextSlot(s)
  /\ nCalls' = nCalls + 1
  /\ LET est == IF b.given THEN b.est ELSE DefaultEstimatedTokens
         e == withBudgetEnter(stats, guardConfig, <<b.label>>, est, b.type, now)
         c0 == [IdleCall EXCEPT !.kind = "budget", !.label = <<b.label>>, !.tier = b.type,
                                !.est = est, !.before = stats, !.id = nCalls + 1,
                                !.alone = ~OthersInFlight(s)]
     IN  /\ stats' = e.stats
         /\ IF e.admitted
            THEN /\ calls' = Overlap(s, [c0 EXCEPT !.pc = "op", !.fn = b.fn,
                                                    !.invoked = e.invoked])
                 /\ last' = last
            ELSE /\ calls' = Overlap(s, IdleCall)
                 /\ last' = [Settled(c0, "rejected", e.error) EXCEPT !.invoked = e.invoked]
  /\ quiet' = FALSE
  /\ UNCHANGED <<aiRouterInstance, config, guardConfig, enabled, cache, now, nAdvances>>

\* withBudget, lines 106-122, resumed when the operation of a direct call settles
BudgetOpDone(s) ==
  /\ calls[s].kind = "budget" /\ calls[s].pc = "op"
  /\ LET c == calls[s]
         w == withBudgetSettle(stats, c.fn, c.est, c.tier)
     IN  /\ stats' = w.stats
         /\ Return(s, Settled(c, IF w.outcome.thrown THEN "rejected" ELSE "resolved",
                              w.outcome.v))
  /\ UNCHANGED <<aiRouterInstance, config, guardConfig, enabled, cache, now, nCalls, nAdvances>>

\* time passes, while no continuation is queued
Advance(d) ==
  /\ ~MicrotaskPending
  /\ nAdvances' = nAdvances + 1
  /\ now' = now + d
  /\ UNCHANGED <<aiRouterInstance, config, guardConfig, enabled, cache, stats, calls, last, nCalls, quiet>>

\* A synchronous operation of the guard is called and returns: it is recorded
\* as the call that settled last (kind names the operation, key and pending
\* hold its arguments, result what it returned); the calls in flight are no
\* longer alone.
SyncCall(kind, key, args, result) ==
  /\ nCalls' = nCalls + 1
  /\ calls' = [t \in Slots |->
                 IF InFlight(t) THEN [calls[t] EXCEPT !.alone = FALSE] ELSE calls[t]]
  /\ last' = [IdleCall EXCEPT !.pc = "done", !.kind = kind, !.key = key,
                              !.pending = args, !.outcome = "returned",
                              !.result = result, !.before = stats, !.at = now,
                              !.id = nCalls + 1]
  /\ quiet' = FALSE

\* the entry the cache holds for key, if any
Found(key) == IF key \in DOMAIN cache THEN cache[key] ELSE Nothing

\* cacheGet(key) called on the guard directly
CacheGetCall(key) ==
  /\ LET g == cacheGet(cache, stats, key, now)
     IN  /\ cache' = g.cache
         /\ stats' = g.stats
         /\ SyncCall("cacheGet", key, [found |-> Found(key)], g.data)
  /\ UNCHANGED <<aiRouterInstance, config, guardConfig, enabled, now, nAdvances>>

\* cacheSet(key, data, ttlSeconds) called on the guard directly; an omitted
\* ttlSeconds is the null of the parameter's default
CacheSetCall(a) ==
  /\ cache' = cacheSet(cache, a.key, a.data, IF a.given THEN a.ttl ELSE 0, guardConfig, now)
  /\ SyncCall("cacheSet", a.key, [found |-> Found(a.key), data |-> a.data,
                                  given |-> a.given, ttl |-> a.ttl], Nothing)
  /\ UNCHANGED <<aiRouterInstance, config, guardConfig, enabled, stats, now, nAdvances>>

\* getStats() called on the router (which adds its enabled flag) or the guard
GetStatsCall ==
  /\ LET g == getStats(cache, stats, guardConfig, now)
     IN  /\ stats' = g.stats
         /\ SyncCall("getStats", Nothing, Nothing, g.ret)
  /\ UNCHANGED <<aiRouterInstance, config, guardConfig, enabled, cache, now, nAdvances>>

\* setEmergencyLimits(limits) called on the guard
SetEmergencyLimitsCall(limits) ==
  /\ guardConfig' = setEmergencyLimits(guardConfig, limits)
  /\ SyncCall("setEmergencyLimits", Nothing, limits, guardConfig')
  /\ UNCHANGED <<aiRouterInstance, config, enabled, cache, stats, now, nAdvances>>

\* a clearCache that leaves the entries where they are
clearCache_KeepsEntries(c) ==
  [cache |-> c, ret |-> [cleared |-> TRUE, newSize |-> Cardinality(DOMAIN c)]]

\* CostGuard.clearCache, lines 142-145: the emptied cache and what it returns
clearCache(c) ==
  [cache |-> EmptyCache,
   ret |-> [cleared |-> TRUE, newSize |-> Cardinality(DOMAIN EmptyCache)]]

\* clearCache() called on the guard
ClearCacheCall ==
  /\ LET g == clearCache(cache)
     IN  /\ cache' = g.cache
         /\ SyncCall("clearCache", Nothing, [entries |-> DOMAIN cache], g.ret)
  /\ UNCHANGED <<aiRouterInstance, config, guardConfig, enabled, stats, now, nAdvances>>

Next ==
  \/ \E s \in Slots, r \in CoreRequests : nCalls < MaxCalls /\ RouteStart(s, r)
  \/ \E s \in Slots : RouteAfterRules(s)
  \/ \E s \in Slots : TierOpDone(s)
  \/ \E s \in Slots : RouteAfterTier(s)
  \/ \E s \in Slots, b \in BudgetCalls : nCalls < MaxCalls /\ WithBudgetCall(s, b)
  \/ \E s \in Slots : BudgetOpDone(s)
  \/ \E d \in Advances : nAdvances < MaxAdvances /\ Advance(d)

Spec == Init /\ [][Next]_vars

\* The same operations with every call made after the previous one has
\* settled, on one date: a caller that awaits each call before it makes the
\* next, while the clock does not advance.
NoneInFlight == \A s \in Slots : ~InFlight(s)

SeqNext ==
  \/ \E r \in CoreRequests : nCalls < MaxSeqCalls /\ NoneInFlight /\ RouteStart(1, r)
  \/ RouteAfterRules(1)
  \/ TierOpDone(1)
  \/ RouteAfterTier(1)
  \/ \E b \in BudgetCalls : nCalls < MaxSeqCalls /\ NoneInFlight /\ WithBudgetCall(1, b)
  \/ BudgetOpDone(1)

SeqSpec == Init /\ [][SeqNext]_vars

\* The operations of the guard called directly, withBudget calls one at a
\* time, getStats and setEmergencyLimits also while a withBudget call awaits
\* its operation.
GuardNext ==
  \/ \E k \in CacheKeys : nCalls < MaxGuardOps /\ NoneInFlight /\ CacheGetCall(k)
  \/ \E a \in CacheSets : nCalls < MaxGuardOps /\ NoneInFlight /\ CacheSetCall(a)
  \/ nCalls < MaxGuardOps /\ GetStatsCall
  \/ \E l \in Limits : nCalls < MaxGuardOps /\ SetEmergencyLimitsCall(l)
  \/ nCalls < MaxGuardOps /\ ClearCacheCall
  \/ \E b \in BudgetCalls : nCalls < MaxGuardOps /\ NoneInFlight /\ WithBudgetCall(1, b)
  \/ BudgetOpDone(1)
  \/ \E d \in Advances : nAdvances < MaxAdvances /\ Advance(d)

GuardSpec == Init /\ [][GuardNext]_vars

\* Route calls over every request, made one after the other, the clock
\* advancing between them.  The configurations: one that leaves the ceilings
\* and the cache TTLs to the defaults of the code, one whose daily ceiling no
\* cheap call fits under and whose cache TTLs are not the defaults, and the
\* one index.js builds with AI_ENABLE off.
RulesConfigs ==
  { [AI_ENABLE |-> TRUE, OPENAI_API_KEY |-> S_sk, maxDailyTokens |-> 250],
    [AI_ENABLE |-> TRUE, OPENAI_API_KEY |-> S_sk,
     CACHE_TTL_FAQ |-> 7200, CACHE_TTL_TRIAGE |-> 1800,
     AI_MAX_TOKENS_CHEAP |-> 256, AI_MAX_TOKENS_EXPENSIVE |-> 512,
     maxDailyTokens |-> 100],
    IndexConfig(FALSE, S_sk) }

RulesInit ==
  /\ config \in RulesConfigs
  /\ guardConfig = GuardConfig(config)
  /\ enabled = Enabled(config)
  /\ cache = EmptyCache
  /\ now = 0
  /\ stats = InitialStats(0)
  /\ calls = [s \in Slots |-> IdleCall]
  /\ last = IdleCall
  /\ nCalls = 0
  /\ nAdvances = 0
  /\ quiet = FALSE
  /\ aiRouterInstance = [config |-> config, enabled |-> enabled]

RulesNext ==
  \/ \E r \in 1..Len(Requests) : nCalls < MaxRuleCalls /\ NoneInFlight /\ RouteStart(1, r)
  \/ RouteAfterRules(1)
  \/ TierOpDone(1)
  \/ RouteAfterTier(1)
  \/ \E d \in Advances : nAdvances < MaxAdvances /\ NoneInFlight /\ Advance(d)

RulesSpec == RulesInit /\ [][RulesNext]_vars

(***************************************************************************)
(* The process from its start: costGuardInstance and aiRouterInstance are  *)
(* null (guardConfig and aiRouterInstance are Nothing) until getCostGuard,  *)
(* getAIRouter or the AIRouter constructor is called; route calls are made  *)
(* on the router obtained last, one at a time.                              *)
(***************************************************************************)
\* a getCostGuard that constructs a guard on every call
getCostGuard_Reconstructs(gcfg, c, st, cfg, t) ==
  [config |-> GuardConfig(cfg), cache |-> EmptyCache, stats |-> InitialStats(t)]

\* getCostGuard(config), lines 156-161: the guard it returns (its config,
\* cache and stats), constructed from config at clock t when
\* costGuardInstance is null
getCostGuard(gcfg, c, st, cfg, t) ==
  IF gcfg = Nothing
  THEN [config |-> GuardConfig(cfg), cache |-> EmptyCache, stats |-> InitialStats(t)]
  ELSE [config |-> gcfg, cache |-> c, stats |-> st]

\* new AIRouter(config), lines 4-7: the router (its config and enabled flag)
\* and the guard it holds
NewAIRouter(cfg) ==
  [router |-> [config |-> cfg, enabled |-> Enabled(cfg)],
   guard |-> getCostGuard(guardConfig, cache, stats, cfg, now)]

\* the guard g is the process's guard from now on
GuardIs(g) == guardConfig' = g.config /\ cache' = g.cache /\ stats' = g.stats
\* the calls that follow are made on router r
RouterIs(r) == config' = r.config /\ enabled' = r.enabled

\* getCostGuard(cfg) called by a module of the process
GetCostGuardCall(cfg) ==
  /\ GuardIs(getCostGuard(guardConfig, cache, stats, cfg, now))
  /\ SyncCall("getCostGuard", Nothing, cfg, guardConfig')
  /\ UNCHANGED <<aiRouterInstance, config, enabled, now, nAdvances>>

\* new AIRouter(cfg) called directly
NewAIRouterCall(cfg) ==
  /\ LET n == NewAIRouter(cfg)
     IN  /\ GuardIs(n.guard)
         /\ RouterIs(n.router)
         /\ SyncCall("newAIRouter", Nothing, cfg, n.router)
  /\ UNCHANGED <<aiRouterInstance, now, nAdvances>>

\* getAIRouter(cfg), lines 345-350
GetAIRouterCall(cfg) ==
  /\ IF aiRouterInstance = Nothing
     THEN LET n == NewAIRouter(cfg)
          IN  /\ aiRouterInstance' = n.router
              /\ GuardIs(n.guard)
     ELSE UNCHANGED <<aiRouterInstance, guardConfig, cache, stats>>
  /\ RouterIs(aiRouterInstance')
  /\ SyncCall("getAIRouter", Nothing, cfg, aiRouterInstance')
  /\ UNCHANGED <<now, nAdvances>>

SingletonInit ==
  /\ config = Nothing
  /\ guardConfig = Nothing
  /\ enabled = FALSE
  /\ aiRouterInstance = Nothing
  /\ cache = EmptyCache
  /\ now = 0
  /\ stats = InitialStats(0)
  /\ calls = [s \in Slots |-> IdleCall]
  /\ last = IdleCall
  /\ nCalls = 0
  /\ nAdvances = 0
  /\ quiet = FALSE

SingletonRequests == {2, 4}
SingletonNext ==
  \/ \E cfg \in Configs : nCalls < MaxSingletonOps /\ NoneInFlight /\ GetCostGuardCall(cfg)
  \/ \E cfg \in Configs : nCalls < MaxSingletonOps /\ NoneInFlight /\ NewAIRouterCall(cfg)
  \/ \E cfg \in Configs : nCalls < MaxSingletonOps /\ NoneInFlight /\ GetAIRouterCall(cfg)
  \/ \E r \in SingletonRequests :
       /\ nCalls < MaxSingletonOps /\ NoneInFlight /\ config # Nothing
       /\ RouteStart(1, r)
  \/ RouteAfterRules(1)
  \/ TierOpDone(1)
  \/ RouteAfterTier(1)

SingletonSpec == SingletonInit /\ [][SingletonNext]_vars

\* The router and the admin operations of the guard (getStats, clearCache)
\* on one process: route and withBudget calls one at a time, clearCache also
\* while a call awaits, the clock advancing in between.
AdminRequests == {1, 2, 4}
AdminNext ==
  \/ \E r \in AdminRequests : nCalls < MaxAdminOps /\ NoneInFlight /\ RouteStart(1, r)
  \/ RouteAfterRules(1)
  \/ TierOpDone(1)
  \/ RouteAfterTier(1)
  \/ \E b \in BudgetCalls : nCalls < MaxAdminOps /\ NoneInFlight /\ WithBudgetCall(1, b)
  \/ BudgetOpDone(1)
  \/ nCalls < MaxAdminOps /\ NoneInFlight /\ GetStatsCall
  \/ nCalls < MaxAdminOps /\ ClearCacheCall
  \/ \E d \in Advances : nAdvances < MaxAdvances /\ Advance(d)

AdminSpec == Init /\ [][AdminNext]_vars

\* The values the escalation predicates are asked about: no result, strings,
\* and objects with and without the properties uncertain, confidence and
\* needsMoreContext.
Confidences == {0, 69, 70, 71, 100}
WithUncertain(S) == S \cup {Spread(o, [uncertain |-> u]) : o \in S, u \in BOOLEAN}
WithConfidence(S) == S \cup {Spread(o, [confidence |-> c]) : o \in S, c \in Confidences}
WithNeedsMoreContext(S) ==
  S \cup {Spread(o, [needsMoreContext |-> n]) : o \in S, n \in BOOLEAN}
ResultValues ==
  {JNull, Undefined, JStr(<<>>), JStr(<<"o","k">>)}
  \cup WithNeedsMoreContext(WithConfidence(WithUncertain({[source |-> "rules"]})))

\* shouldEscalate(v) called on the router and on the guard
ShouldEscalateCall(v) ==
  /\ SyncCall("shouldEscalate", Nothing, v,
              [router |-> shouldEscalate(v), guard |-> CostGuard_shouldEscalate(v)])
  /\ UNCHANGED <<aiRouterInstance, config, guardConfig, enabled, cache, stats, now, nAdvances>>

PredicateNext ==
  \E v \in ResultValues : nCalls < MaxPredicateCalls /\ ShouldEscalateCall(v)

PredicateSpec == Init /\ [][PredicateNext]_vars

(***************************************************************************)
(* The tier operations of the source are mocks (tryCheapModel lines 237-247 *)
(* and tryExpensiveModel lines 261-271, "replace with actual OpenAI call"): *)
(* a timer and then a fixed value, of confidence 0.7 for the cheap tier, so *)
(* that in Spec no operation of route fails and line 72 is never reached.   *)
(* ProviderSpec runs route with a provider call in the place of the mock:   *)
(* the operation settles with the value of the mock, with that value at a   *)
(* confidence under the threshold, or with an error (a timeout).  Route,    *)
(* the tier resolvers and withBudget are as in Spec.                        *)
(***************************************************************************)
ProviderOutcomes(c) ==
  IF c.pc # "op" THEN {}
  ELSE { c.fn,
         Ok([c.fn.v EXCEPT !.confidence = EscalateBelow - 1]),
         Throw([error |-> "Timeout"]) }

\* the operation of a tier settles with outcome o and withBudget (lines
\* 106-122) resumes: it tracks the usage and returns the value, or rethrows
TierOpSettles(s, o) ==
  /\ calls[s].kind = "route" /\ calls[s].pc = "op"
  /\ ~MicrotaskPending
  /\ LET c == calls[s]
         w == withBudgetSettle(stats, o, c.est, c.tier)
     IN  /\ stats' = w.stats
         /\ calls' = [calls EXCEPT ![s] =
                        [c EXCEPT !.pc = "ret", !.pending = w.outcome, !.fn = o]]
  /\ UNCHANGED <<aiRouterInstance, config, guardConfig, enabled, cache, now, last, nCalls, nAdvances,
                 quiet>>

\* the requests of ProviderSpec: two that escalate after the rules tier, one
\* the rules answer, one the rules tier throws on, one route throws on
ProviderRequests == CoreRequests \ {1}

ProviderNext ==
  \/ \E s \in Slots, r \in ProviderRequests :
       nCalls < MaxProviderCalls /\ RouteStart(s, r)
  \/ \E s \in Slots : RouteAfterRules(s)
  \/ \E s \in Slots : \E o \in ProviderOutcomes(calls[s]) : TierOpSettles(s, o)
  \/ \E s \in Slots : RouteAfterTier(s)

ProviderSpec == Init /\ [][ProviderNext]_vars

\* The event loop runs every queued continuation, and every tier operation
\* settles (with a value or an error, a timeout being an error).
Fairness ==
  \A s \in Slots :
    /\ WF_vars(RouteAfterRules(s))
    /\ WF_vars(RouteAfterTier(s))
    /\ WF_vars(\E o \in ProviderOutcomes(calls[s]) : TierOpSettles(s, o))

LiveSpec == ProviderSpec /\ Fairness

(***************************************************************************)
(* Properties.                                                             *)
(***************************************************************************)
\* a call starts in this step, and the call that starts
Started == nCalls' = nCalls + 1
NewCall ==
  IF last'.id = nCalls' THEN last'
  ELSE calls'[CHOOSE s \in Slots : calls'[s].id = nCalls']
\* a call settles in this step (it is then last')
SettledNow == last'.id # last.id
\* the budget counters
Counters(st) == <<st.dailyTokens, st.totalTokens, st.cheapCalls, st.expensiveCalls>>

\* C1: the promise returned by route never rejects: every route call that
\* has settled resolved with a result.
C1_RouteNeverRejects ==
  last.kind = "route" => last.outcome = "resolved"

\* C2: a route call that ends on the fallback path leaves the cache as it
\* was: the step that returns the fallback changes no entry, a call that ran
\* with no other call in flight leaves no entry under its fingerprint, and
\* the next call with the same (task, input, options) misses the cache and
\* runs the rules tier again.
C2_FallbackNotCached ==
  [][ /\ (SettledNow /\ last'.fallback) => cache' = cache
      /\ (SettledNow /\ last'.fallback /\ last'.alone) => last'.key \notin DOMAIN cache'
      /\ (Started /\ quiet /\ last.fallback
            /\ NewCall.kind = "route" /\ NewCall.req = last.req)
         => (~NewCall.hit /\ NewCall.pc = "rules" /\ NewCall.tiers = <<"rules">>
             /\ stats'.cacheMisses = stats.cacheMisses + 1) ]_vars

\* C2 witness: a call ended on the fallback path and the next call, with the
\* same request, has missed the cache and is running the rules tier.
C2_Witness ==
  \E s \in Slots :
    /\ last.fallback /\ last.alone
    /\ calls[s].pc = "rules" /\ calls[s].req = last.req /\ calls[s].id = last.id + 1

\* the TTL window of the task of a request
WindowTTL(r) == getTTL(Requests[r].task, config)
\* the step starts a route call that is served at once with the result of
\* the previous call, invokes no tier and changes no budget counter
ServedAsBefore ==
  /\ last'.id = nCalls' /\ last'.outcome = "resolved"
  /\ last'.result = last.result
  /\ last'.tiers = <<>>
  /\ Counters(stats') = Counters(stats)

\* C3 as stated: of two route calls with the same (task, input, options)
\* made one after the other, the second starting within the TTL window of the
\* first, the second returns the result of the first, invokes no tier and
\* changes no budget counter.
C3_Original ==
  [][ (Started /\ quiet /\ last.outcome = "resolved"
         /\ NewCall.kind = "route" /\ NewCall.req = last.req
         /\ now < last.at + WindowTTL(last.req))
      => ServedAsBefore ]_vars

\* C3 as amended: the same, provided the first call did not end on the
\* fallback path, the window being that of the cache entry the first call
\* stored (or, if the first call was itself served from the cache, the
\* remaining life of the entry it was served from).
C3_IdempotentCache ==
  [][ (Started /\ quiet /\ last.outcome = "resolved" /\ ~last.fallback
         /\ NewCall.kind = "route" /\ NewCall.req = last.req
         /\ IF last.hit
            THEN last.key \in DOMAIN cache /\ now < cache[last.key].expiry
            ELSE now < last.at + WindowTTL(last.req))
      => ServedAsBefore ]_vars

\* C3 witness: a call that ran the tiers and stored its result was followed,
\* after the clock advanced within the window, by a call with the same
\* request that was served from the cache.
C3_Witness ==
  /\ quiet /\ last.hit /\ last.id = 2 /\ nAdvances = 1
  /\ last.key \in DOMAIN cache
  /\ cache[last.key].expiry = WindowTTL(last.req)
  /\ cache[last.key].data = last.result

\* the cost of a cheap-tier call of route and the daily ceiling
CheapCost ==
  IF "AI_MAX_TOKENS_CHEAP" \in DOMAIN config THEN config["AI_MAX_TOKENS_CHEAP"]
  ELSE DefaultEstimatedTokens
DailyCeiling == guardConfig["maxDailyTokens"]
\* every charge so far was a cheap-tier call of that cost, on the current date
OnlyCheapSoFar(st) ==
  /\ st.expensiveCalls = 0
  /\ st.dailyTokens = CheapCost * st.cheapCalls
  /\ st.totalTokens = st.dailyTokens
\* this step admits, or rejects, a cheap-tier call of that cost
CheapAdmitted ==
  \E s \in Slots : /\ calls'[s].pc = "op" /\ calls[s].pc # "op"
                   /\ calls'[s].tier = "cheap" /\ calls'[s].est = CheapCost
CheapRejected ==
  /\ SettledNow /\ last'.tier = "cheap" /\ last'.est = CheapCost
  /\ \/ last'.kind = "route" /\ last'.fallback
     \/ last'.kind = "budget" /\ last'.outcome = "rejected"
          /\ last'.result.error = "Budget exceeded"
\* this step completes a cheap-tier operation of that cost with success
CheapSucceeded ==
  \/ \E s \in Slots : /\ calls[s].kind = "route" /\ calls[s].pc = "op"
                      /\ calls'[s].pc = "ret" /\ ~calls'[s].pending.thrown
                      /\ calls[s].tier = "cheap" /\ calls[s].est = CheapCost
  \/ /\ SettledNow /\ last'.kind = "budget" /\ last'.outcome = "resolved"
     /\ last'.tier = "cheap" /\ last'.est = CheapCost

\* C4: in a run of calls made one after the other on one date, while every
\* charge so far was a cheap-tier call of cost c, a cheap-tier call of cost c
\* is admitted exactly when fewer than floor(T/c) have been charged, each
\* success is charged once, so that exactly floor(T/c) calls succeed; the
\* call after that is rejected without its operation being invoked, and a
\* route call rejected so resolves with the fallback.
C4_BudgetEnforcement ==
  [][ /\ OnlyCheapSoFar(stats') => stats'.cheapCalls <= DailyCeiling \div CheapCost
      /\ (OnlyCheapSoFar(stats) /\ CheapAdmitted)
         => stats.cheapCalls < DailyCeiling \div CheapCost
      /\ (OnlyCheapSoFar(stats) /\ CheapRejected)
         => /\ stats.cheapCalls = DailyCeiling \div CheapCost
            /\ ~last'.invoked
            /\ Counters(stats') = Counters(stats)
            /\ last'.kind = "route"
               => /\ last'.outcome = "resolved"
                  /\ last'.result.source = "fallback"
                  /\ last'.tiers = <<"rules">>
      /\ (OnlyCheapSoFar(stats) /\ CheapSucceeded)
         => /\ stats'.cheapCalls = stats.cheapCalls + 1
            /\ stats'.dailyTokens = stats.dailyTokens + CheapCost
            /\ OnlyCheapSoFar(stats') ]_vars

\* C4 witness: floor(T/c) >= 2 cheap-tier calls were charged and the route
\* call after them was rejected by the guard and returned the fallback.
C4_Witness ==
  /\ last.kind = "route" /\ last.fallback /\ last.tier = "cheap" /\ ~last.invoked
  /\ OnlyCheapSoFar(stats)
  /\ stats.cheapCalls = DailyCeiling \div CheapCost
  /\ stats.cheapCalls >= 2

\* this step settles a direct withBudget call whose operation threw
OperationFailedNow ==
  /\ SettledNow /\ last'.kind = "budget" /\ last'.invoked
  /\ last'.outcome = "rejected"

DailyAfterReset ==
  IF stats.lastResetDate # toDateString(now) THEN 0 ELSE stats.dailyTokens
Ceiling(type) ==
  IF type = "expensive" THEN guardConfig["maxExpensiveTokens"]
  ELSE guardConfig["maxCheapTokens"]
WithinBudget(est, type) ==
  est <= Ceiling(type) /\ DailyAfterReset + est <= guardConfig["maxDailyTokens"]
\* the step leaves the counters alone, apart from the lazy daily reset
OnlyLazyReset ==
  /\ stats'.totalTokens = stats.totalTokens
  /\ stats'.cheapCalls = stats.cheapCalls
  /\ stats'.expensiveCalls = stats.expensiveCalls
  /\ stats'.dailyTokens = DailyAfterReset

\* C6: when the budget check of a withBudget call fails, withBudget fails
\* with a budget-exceeded error carrying the label, the ceiling and the
\* usage, the operation is not invoked and the counters are unchanged apart
\* from the lazy daily reset; route turns that failure into its fallback.
C6_RejectedNotInvoked ==
  [][ /\ (Started /\ NewCall.kind = "budget" /\ ~WithinBudget(NewCall.est, NewCall.tier))
         => /\ last'.id = nCalls' /\ last'.outcome = "rejected"
            /\ last'.result = [error |-> "Budget exceeded", label |-> last'.label,
                               limit |-> guardConfig["maxDailyTokens"],
                               used |-> DailyAfterReset]
            /\ ~last'.invoked
            /\ OnlyLazyReset
      /\ \A s \in Slots :
           (/\ calls[s].kind = "route" /\ calls[s].pc \in {"rules", "ret"}
            /\ ~calls[s].pending.thrown
            /\ SettledNow /\ last'.id = calls[s].id /\ last'.fallback)
           => /\ ~WithinBudget(last'.est, last'.tier)
              /\ ~last'.invoked
              /\ last'.tiers = calls[s].tiers
              /\ OnlyLazyReset ]_vars

\* C6 witness: a call was rejected because it would exceed the daily ceiling.
C6_Witness ==
  /\ last.kind = "budget" /\ last.outcome = "rejected" /\ ~last.invoked
  /\ last.est <= Ceiling(last.tier)
  /\ last.before.dailyTokens > 0

\* C7: after the lazy daily reset, the budget check admits a call if and only
\* if its estimate is within the per-call ceiling of its tier and within what
\* is left of the daily ceiling.
C7_CanMakeCall ==
  [][ /\ (Started /\ NewCall.kind = "budget")
         => /\ (NewCall.pc = "op") <=> WithinBudget(NewCall.est, NewCall.tier)
            /\ stats'.dailyTokens = DailyAfterReset
            /\ stats'.lastResetDate = toDateString(now)
      /\ \A s \in Slots :
           (calls[s].kind = "route" /\ calls[s].pc \in {"rules", "ret"}
              /\ calls'[s].pc = "op")
           => WithinBudget(calls'[s].est, calls'[s].tier) ]_vars

\* C7 witness: a call that brings dailyTokens exactly to the daily ceiling
\* has been admitted.
C7_Witness ==
  \E s \in Slots :
    /\ calls[s].kind = "budget" /\ calls[s].pc = "op"
    /\ stats.dailyTokens + calls[s].est = guardConfig["maxDailyTokens"]

\* C8: a route call whose rules tier returns a result with confidence >= 0.7
\* that is not marked uncertain returns that result: no cheap or expensive
\* tier is invoked and no counter of the guard changes.
C8_NoEscalationWhenConfident ==
  [][ \A s \in Slots :
        (/\ calls[s].kind = "route" /\ calls[s].pc = "rules" /\ calls'[s].pc # "rules"
         /\ ~calls[s].pending.thrown
         /\ ~calls[s].pending.v.uncertain
         /\ calls[s].pending.v.confidence >= 70)
        => /\ SettledNow /\ last'.id = calls[s].id
           /\ last'.outcome = "resolved" /\ last'.result = calls[s].pending.v
           /\ last'.tiers = <<"rules">> /\ ~last'.invoked
           /\ stats' = stats ]_vars

\* C8 witness: with AI enabled, a call returned the confident result of the
\* rules tier.
C8_Witness ==
  /\ enabled
  /\ last.kind = "route" /\ last.outcome = "resolved" /\ ~last.hit /\ ~last.fallback
  /\ last.tiers = <<"rules">>
  /\ last.result.confidence >= 70

\* C9: no route call returns a result that is marked uncertain, or one of
\* confidence below 0.7 other than the fallback.
C9_NoUncertainReturned ==
  (last.kind = "route" /\ last.outcome = "resolved")
  => /\ ~last.result.uncertain
     /\ last.result.confidence < 70 => last.result.source = "fallback"

\* C10: with AI_ENABLE off, route('navigator', q) for a query with no
\* category keyword and no greeting word returns the navigator fallback
\* response, with source 'fallback'.
C10_DisabledNavigatorFallback ==
  (/\ last.kind = "route" /\ last.outcome = "resolved"
   /\ ~config["AI_ENABLE"]
   /\ Requests[last.req].task = "navigator"
   /\ Requests[last.req].input.t = "string"
   /\ LET q == toLowerCase(Requests[last.req].input.s)
      IN  /\ \A i \in 1..Len(faqRules) :
                /\ ~includes(q, faqRules[i].category)
                /\ ~includes(q, replace(faqRules[i].category, "-", " "))
          /\ ~includes(q, S_help) /\ ~includes(q, S_hello) /\ ~includes(q, S_start))
  => /\ last.result.source = "fallback"
     /\ last.result.body =
          [response |-> "I'm here to help connect you with services. Please let a caseworker know what specific assistance you need."]

\* this step runs the budget check of a call: a withBudget call starts, or a
\* route call enters a tier; the call as the step leaves it
TierEntered(s) ==
  /\ calls[s].kind = "route" /\ calls[s].pc \in {"rules", "ret"}
  /\ ~calls[s].pending.thrown
  /\ \/ calls'[s].pc = "op"
     \/ SettledNow /\ last'.id = calls[s].id /\ last'.fallback
BudgetChecked ==
  \/ Started /\ NewCall.kind = "budget"
  \/ \E s \in Slots : TierEntered(s)
CheckedCall ==
  IF Started THEN NewCall
  ELSE IF SettledNow THEN last'
  ELSE calls'[CHOOSE s \in Slots : TierEntered(s)]

\* C11: when the date of the clock differs from lastResetDate, a budget check
\* sets dailyTokens to 0 and lastResetDate to the current date before it
\* evaluates the budget (so the call is judged against an empty day); every
\* change of lastResetDate is such a reset, which leaves cheapCalls,
\* expensiveCalls and totalTokens alone; and while the date is unchanged no
\* step resets: dailyTokens does not decrease.
C11_DailyReset ==
  [][ /\ (BudgetChecked /\ stats.lastResetDate # toDateString(now))
         => /\ stats'.dailyTokens = 0
            /\ stats'.lastResetDate = toDateString(now)
            /\ (CheckedCall.pc = "op")
               <=> /\ CheckedCall.est <= Ceiling(CheckedCall.tier)
                   /\ CheckedCall.est <= guardConfig["maxDailyTokens"]
      /\ stats'.lastResetDate # stats.lastResetDate
         => /\ stats.lastResetDate # toDateString(now)
            /\ stats'.lastResetDate = toDateString(now)
            /\ stats'.dailyTokens = 0
            /\ stats'.cheapCalls = stats.cheapCalls
            /\ stats'.expensiveCalls = stats.expensiveCalls
            /\ stats'.totalTokens = stats.totalTokens
      /\ stats.lastResetDate = toDateString(now)
         => /\ stats'.lastResetDate = stats.lastResetDate
            /\ stats'.dailyTokens >= stats.dailyTokens ]_vars

\* C11 witness: the guard was exhausted on the previous date, and a call that
\* would not have fitted then has been admitted after the reset.
C11_Witness ==
  \E s \in Slots :
    /\ calls[s].pc = "op"
    /\ calls[s].before.lastResetDate # stats.lastResetDate
    /\ calls[s].before.dailyTokens + calls[s].est > guardConfig["maxDailyTokens"]
    /\ calls[s].before.totalTokens > 0
    /\ stats.totalTokens = calls[s].before.totalTokens
    /\ stats.dailyTokens = 0

\* the TTL of a task as the specification states it
FaqTTL == IF "CACHE_TTL_FAQ" \in DOMAIN config THEN config["CACHE_TTL_FAQ"] ELSE 86400
TriageTTL == IF "CACHE_TTL_TRIAGE" \in DOMAIN config THEN config["CACHE_TTL_TRIAGE"] ELSE 7200
TaskTTL(task) ==
  IF task = "navigator" THEN FaqTTL
  ELSE IF task \in {"triage", "careplan"} THEN TriageTTL
  ELSE 3600
\* this step returns the result of a route call that missed the cache and
\* completed without an exception
CompletedNow ==
  /\ SettledNow /\ last'.kind = "route" /\ last'.outcome = "resolved"
  /\ ~last'.hit /\ ~last'.fallback

\* C12: a route call that misses the cache and completes without an
\* exception stores the result it returns under its fingerprint, whatever the
\* confidence of the result, to expire the TTL of its task after the clock
\* of the return: the FAQ TTL for navigator, the triage TTL for triage and
\* careplan, 3600 seconds for any other task.
C12_CompletedIsCached ==
  [][ CompletedNow
      => /\ last'.key \in DOMAIN cache'
         /\ cache'[last'.key] =
              [data |-> last'.result,
               expiry |-> now + TaskTTL(Requests[last'.req].task)] ]_vars

\* C12 witness: a result still marked uncertain was stored, some time after
\* the start of the process.
C12_Witness ==
  /\ last.kind = "route" /\ last.outcome = "resolved" /\ ~last.hit /\ ~last.fallback
  /\ last.result.uncertain
  /\ last.at > 0
  /\ last.key \in DOMAIN cache
  /\ cache[last.key].data = last.result

\* the request of the call that settled last
LastRequest == Requests[last.req]
\* that call ran no cheap and no expensive tier
RulesOnly == ~last.invoked /\ \A i \in 1..Len(last.tiers) : last.tiers[i] = "rules"

\* C13: route('triage', client, options) for a client of urgency 'high' or
\* 'critical' whose needs include 'housing' returns priority 'urgent', the
\* three fixed housing recommendations, confidence 0.95 and source 'rules',
\* with no cheap or expensive tier invoked.
C13_UrgentHousing ==
  (/\ last.kind = "route" /\ last.outcome = "resolved"
   /\ LastRequest.task = "triage"
   /\ LastRequest.input.t = "client"
   /\ LastRequest.input.urgency \in {S_high, S_critical}
   /\ \E i \in 1..Len(LastRequest.input.needs) : LastRequest.input.needs[i] = S_housing)
  => /\ last.result.body.priority = S_urgent
     /\ last.result.body.recommendations =
          <<"Emergency shelter placement needed within 24 hours",
            "Rapid rehousing assessment required",
            "Connect with housing navigator immediately">>
     /\ last.result.confidence = 95
     /\ last.result.source = "rules"
     /\ RulesOnly

\* this step starts a route call for a navigator query string that misses the
\* cache, so that the rules tier runs on the query
NavigatorRulesRun ==
  /\ Started /\ NewCall.kind = "route" /\ NewCall.pc = "rules"
  /\ Requests[NewCall.req].task = "navigator"
  /\ Requests[NewCall.req].input.t = "string"
\* the categories whose keyword, or its form with the hyphen replaced by a
\* space, is a substring of the lower-cased query q
CategoriesIn(q) ==
  {i \in 1..Len(faqRules) :
     \/ includes(q, faqRules[i].category)
     \/ includes(q, replace(faqRules[i].category, "-", " "))}
HasGreeting(q) == includes(q, S_help) \/ includes(q, S_hello) \/ includes(q, S_start)

\* for each request with a navigator query string, the categories in the
\* lower-cased query and whether it holds a greeting word
NavigatorQueries ==
  {r \in 1..Len(Requests) :
     Requests[r].task = "navigator" /\ Requests[r].input.t = "string"}
QueryCategories ==
  [r \in NavigatorQueries |-> CategoriesIn(toLowerCase(Requests[r].input.s))]
QueryGreets ==
  [r \in NavigatorQueries |-> HasGreeting(toLowerCase(Requests[r].input.s))]

\* C14: for a navigator query string the rules tier returns the canned
\* explanation of a category whose keyword (or its form with a space for the
\* hyphen) is in the lower-cased query, at confidence 0.9 with source
\* 'rules', before it looks for a greeting ("I need help with housing" yields
\* housing); a greeting word and no category yields the greeting at 0.8;
\* anything else an uncertain result at 0.4.  On a category match route
\* runs no further tier and stores the result under the FAQ TTL.
C14_NavigatorRules ==
  [][ /\ NavigatorRulesRun
         => LET r == NewCall.req
                v == NewCall.pending.v
            IN  /\ ~NewCall.pending.thrown
                /\ QueryCategories[r] # {}
                   => /\ \E i \in QueryCategories[r] :
                           /\ v.body.response = faqRules[i].response
                           /\ v.body.category = faqRules[i].name
                      /\ v.confidence = 90 /\ v.source = "rules" /\ ~v.uncertain
                /\ (QueryCategories[r] = {} /\ QueryGreets[r])
                   => /\ v.body.response = GreetingResponse
                      /\ v.confidence = 80 /\ ~v.uncertain
                /\ (QueryCategories[r] = {} /\ ~QueryGreets[r])
                   => v.uncertain /\ v.confidence = 40
                /\ Requests[r].input.s = Q_helpHousing
                   => v.body.category = "housing"
      /\ \A s \in Slots :
           (/\ calls[s].kind = "route" /\ calls[s].pc = "rules" /\ calls'[s].pc # "rules"
            /\ calls[s].req \in NavigatorQueries
            /\ QueryCategories[calls[s].req] # {})
           => /\ SettledNow /\ last'.id = calls[s].id
              /\ last'.outcome = "resolved" /\ last'.result = calls[s].pending.v
              /\ last'.tiers = <<"rules">> /\ ~last'.invoked
              /\ stats' = stats
              /\ last'.key \in DOMAIN cache'
              /\ cache'[last'.key] = [data |-> last'.result, expiry |-> now + FaqTTL] ]_vars

\* C14 witness: "I need help with housing" was answered by the rules tier
\* with the housing explanation, which is in the cache.
C14_Witness ==
  /\ last.kind = "route" /\ last.outcome = "resolved" /\ ~last.hit /\ ~last.fallback
  /\ LastRequest.task = "navigator"
  /\ LastRequest.input = JStr(Q_helpHousing)
  /\ last.result.body.category = "housing"
  /\ last.result.confidence = 90
  /\ last.key \in DOMAIN cache /\ cache[last.key].data = last.result

\* the template the specification names for a client: chosen from the first
\* need only
TemplateFor(client) ==
  LET first == IF client.needs = <<>> THEN S_general ELSE client.needs[1]
  IN  IF includes(first, S_employment) THEN careplanTemplates.employment
      ELSE IF includes(first, S_medical) \/ includes(first, S_mentalHealth)
      THEN careplanTemplates.health
      ELSE careplanTemplates.housing

\* C15: route('careplan', client, options) returns the plan of the template
\* chosen from the client's first need (employment-focused, health-focused,
\* otherwise housing-focused): that template's goals, tasks and resources,
\* timeline '90 days', confidence 0.8, with no cheap or expensive tier.
C15_CareplanTemplate ==
  (/\ last.kind = "route" /\ last.outcome = "resolved"
   /\ LastRequest.task = "careplan"
   /\ LastRequest.input.t = "client")
  => /\ last.result.body.goals = TemplateFor(LastRequest.input).goals
     /\ last.result.body.tasks = TemplateFor(LastRequest.input).tasks
     /\ last.result.body.resources = TemplateFor(LastRequest.input).resources
     /\ last.result.body.timeline = "90 days"
     /\ last.result.confidence = 80
     /\ RulesOnly

\* the route call in slot s is about to fail: its rules tier threw, or its
\* result escalates and the guard has no budget for the cheap tier
RulesThrew(s) ==
  calls[s].kind = "route" /\ calls[s].pc = "rules" /\ calls[s].pending.thrown
CheapRefused(s) ==
  /\ calls[s].kind = "route" /\ calls[s].pc = "rules" /\ ~calls[s].pending.thrown
  /\ calls[s].pending.v.uncertain \/ calls[s].pending.v.confidence < 70
  /\ enabled
  /\ ~WithinBudget(CheapCost, "cheap")

\* C16: a route call that fails internally (a tier threw, or the guard
\* refused the call) returns a result with source 'fallback' fixed by the
\* task alone: confidence 0.5 for navigator, triage and careplan, 0.3 for any
\* other task; two failed calls for the same task return the same result,
\* whatever their inputs and whatever failed.
C16_FallbackByTask ==
  [][ /\ \A s \in Slots :
           ((RulesThrew(s) \/ CheapRefused(s)) /\ calls'[s].pc # "rules")
           => /\ SettledNow /\ last'.id = calls[s].id
              /\ last'.outcome = "resolved"
              /\ last'.result.source = "fallback"
              /\ last'.result.confidence =
                   IF Requests[last'.req].task \in {"navigator", "triage", "careplan"}
                   THEN 50 ELSE 30
      /\ (/\ SettledNow /\ last'.kind = "route" /\ last'.outcome = "resolved"
          /\ last'.result.source = "fallback"
          /\ last.kind = "route" /\ last.outcome = "resolved"
          /\ last.result.source = "fallback"
          /\ Requests[last'.req].task = Requests[last.req].task)
         => last'.result = last.result ]_vars

\* C16 witness: a navigator call refused by the guard returned the fallback
\* after a navigator call with another input, whose rules tier threw, had
\* returned it.
C16_Witness ==
  /\ last.kind = "route" /\ last.fallback /\ last.id = 2
  /\ last.tier = "cheap" /\ ~last.invoked
  /\ LastRequest.task = "navigator"
  /\ last.result.source = "fallback" /\ last.result.confidence = 50
  /\ stats.cacheMisses = 2 /\ cache = EmptyCache

\* this step is a call of the named synchronous operation of the guard
Called(kind) == SettledNow /\ last'.kind = kind
\* the entries of the cache other than the one for key are as they were
OthersKept(key) ==
  /\ (DOMAIN cache') \ {key} = (DOMAIN cache) \ {key}
  /\ \A k \in (DOMAIN cache) \ {key} : cache'[k] = cache[k]
\* the counters of the guard other than the hit and miss counters
BudgetState(st) ==
  <<st.dailyTokens, st.lastResetDate, st.totalTokens, st.cheapCalls, st.expensiveCalls>>

\* C17: a cacheGet(key) call increments exactly one of cacheHits and
\* cacheMisses by one: a hit, returning the stored payload and leaving the
\* cache alone, if and only if the cache holds an entry for key whose expiry
\* is strictly later than now; otherwise a miss returning null, which
\* removes the entry if there is one (now >= expiry).  No other operation of
\* the guard changes the two counters, so their sum is the number of
\* cacheGet calls made.
C17_CacheGet ==
  [][ /\ Called("cacheGet")
         => LET k == last'.key
                live == k \in DOMAIN cache /\ cache[k].expiry > now
            IN  /\ BudgetState(stats') = BudgetState(stats)
                /\ live => /\ stats'.cacheHits = stats.cacheHits + 1
                           /\ stats'.cacheMisses = stats.cacheMisses
                           /\ last'.result = cache[k].data
                           /\ cache' = cache
                /\ ~live => /\ stats'.cacheMisses = stats.cacheMisses + 1
                            /\ stats'.cacheHits = stats.cacheHits
                            /\ last'.result = Nothing
                            /\ k \notin DOMAIN cache'
                            /\ OthersKept(k)
      /\ ~Called("cacheGet")
         => /\ stats'.cacheHits = stats.cacheHits
            /\ stats'.cacheMisses = stats.cacheMisses ]_vars

\* C17 witness: a cacheGet made at the very instant an entry expires missed
\* and removed the entry.
C17_Witness ==
  /\ last.kind = "cacheGet"
  /\ last.pending.found # Nothing
  /\ last.pending.found.expiry = last.at
  /\ last.result = Nothing
  /\ last.key \notin DOMAIN cache
  /\ stats.cacheMisses = 1 /\ stats.cacheHits = 0

\* C18: cacheSet(key, payload, ttlSeconds) replaces any entry for key, live
\* or expired, with the payload and the expiry now + ttlSeconds, or now + the
\* configured default TTL when ttlSeconds is omitted (a ttlSeconds of 0,
\* which is not a positive integer, is taken as omitted), and leaves every
\* other entry and all counters unchanged.
C18_CacheSet ==
  [][ Called("cacheSet")
      => LET a == last'.pending
         IN  /\ last'.key \in DOMAIN cache'
             /\ cache'[last'.key] =
                  [data |-> a.data,
                   expiry |-> now + (IF a.given /\ a.ttl > 0 THEN a.ttl
                                     ELSE guardConfig["defaultTTL"])]
             /\ OthersKept(last'.key)
             /\ stats' = stats ]_vars

\* C18 witness: a cacheSet with a ttlSeconds replaced an entry that had not
\* expired by another payload, while the cache held a second entry.
C18_Witness ==
  /\ last.kind = "cacheSet"
  /\ last.pending.given /\ last.pending.ttl # 0
  /\ last.pending.found # Nothing
  /\ last.pending.found.expiry > last.at
  /\ last.pending.found.data # last.pending.data
  /\ cache[last.key].data = last.pending.data
  /\ Cardinality(DOMAIN cache) = 2

\* C19: getStats is a read-only snapshot: a call changes no field of the
\* budget state, no cache entry and no hit or miss counter; the budget state
\* changes only in the steps of withBudget.
C19_GetStatsReadOnly ==
  [][ /\ Called("getStats") => (stats' = stats /\ cache' = cache)
      /\ BudgetState(stats') # BudgetState(stats)
         => \/ Started /\ NewCall.kind = "budget"
            \/ \E s \in Slots : calls[s].pc = "op" /\ calls'[s].pc # "op" ]_vars

\* C20: the configuration is fixed at construction: no operation changes the
\* router's configuration, its enabled flag or the ceilings and TTL the
\* guard works with.
C20_ConfigFixed ==
  [][ config' = config /\ enabled' = enabled /\ guardConfig' = guardConfig ]_vars

\* this step completes the guarded operation of the call in slot s, with
\* success or not; the call as it was awaiting the operation
OpCompleted(s) == calls[s].pc = "op" /\ calls'[s].pc # "op"
OpSucceeded(s) == OpCompleted(s) /\ ~calls[s].fn.thrown

\* C21: under every interleaving of route and withBudget calls no counter
\* update is lost.  The counters start at 0; the step that completes a
\* guarded operation with success adds its token estimate to totalTokens and
\* one to the counter of its tier, whatever the other calls in flight have
\* done since it was admitted; no other step changes the three counters.  So
\* at every point totalTokens is the sum of the estimates of the operations
\* completed with success, and cheapCalls and expensiveCalls their numbers.
C21_NoLostUpdate ==
  /\ stats.totalTokens = 0 /\ stats.cheapCalls = 0 /\ stats.expensiveCalls = 0
  /\ [][ /\ \A s \in Slots :
              OpSucceeded(s)
              => /\ stats'.totalTokens = stats.totalTokens + calls[s].est
                 /\ stats'.cheapCalls =
                      stats.cheapCalls + (IF calls[s].tier = "cheap" THEN 1 ELSE 0)
                 /\ stats'.expensiveCalls =
                      stats.expensiveCalls + (IF calls[s].tier = "expensive" THEN 1 ELSE 0)
         /\ (~\E s \in Slots : OpSucceeded(s))
            => /\ stats'.totalTokens = stats.totalTokens
               /\ stats'.cheapCalls = stats.cheapCalls
               /\ stats'.expensiveCalls = stats.expensiveCalls ]_vars

\* C21 witness: two guarded operations were in flight at once and both have
\* been charged.
C21_Witness ==
  /\ ~last.alone /\ last.invoked /\ last.outcome = "resolved"
  /\ stats.cheapCalls + stats.expensiveCalls = 2
  /\ stats.totalTokens > last.est

\* the counters after a successful operation of tier type estimated at est
Charged(st, est, type) ==
  [st EXCEPT !.dailyTokens = @ + est,
             !.totalTokens = @ + est,
             !.cheapCalls = IF type = "cheap" THEN @ + 1 ELSE @,
             !.expensiveCalls = IF type = "expensive" THEN @ + 1 ELSE @]

\* C23: when the operation passed to withBudget succeeds, dailyTokens and
\* totalTokens each grow by exactly the token estimate and the call counter
\* of the given tier, and of no other, by one; all of this in the one step
\* that resumes withBudget, which changes nothing else of the statistics; and
\* withBudget returns to its caller (the caller of a direct call, the tier
\* resolver of a route call) the very result of the operation.
C23_SuccessCharged ==
  [][\A s \in Slots :
       OpSucceeded(s) /\ calls[s].tier \in {"cheap", "expensive"}
       => /\ stats' = Charged(stats, calls[s].est, calls[s].tier)
          /\ calls[s].kind = "budget"
             => /\ last'.id = calls[s].id /\ last'.outcome = "resolved"
                /\ last'.result = calls[s].fn.v
          /\ calls[s].kind = "route"
             => calls'[s].pc = "ret" /\ calls'[s].pending = calls[s].fn]_vars

\* C23 witness: a direct expensive call has returned the value of its
\* operation, and one cheap operation of 256 tokens has been charged as well.
C23_Witness ==
  /\ last.kind = "budget" /\ last.tier = "expensive" /\ last.outcome = "resolved"
  /\ stats.expensiveCalls = 1 /\ stats.cheapCalls = 1
  /\ stats.totalTokens = last.est + DefaultMaxCheapTokens

\* call number i is a route call in flight
RouteInFlight(i) == \E s \in Slots : calls[s].id = i /\ calls[s].kind = "route"
\* call number i has just returned a result to its caller
Returned(i) == last.id = i /\ last.kind = "route" /\ last.outcome = "resolved"
\* the call that settled last had a tier operation that failed
TierFailed == last.invoked /\ last.fn.thrown

\* C22: if every tier operation eventually completes or fails and the event
\* loop runs the continuations, every route call in flight eventually returns
\* a result to its caller, and what it returns when one of its tier
\* operations has failed (a timeout being a failure) is the fallback of its
\* task.
C22_RouteTerminates ==
  \A i \in 1..MaxProviderCalls :
    RouteInFlight(i)
      ~> /\ Returned(i)
         /\ TierFailed => /\ last.fallback
                          /\ last.result = getFallbackResponse(Requests[last.req].task)

\* C22 witness: a route call whose cheap tier operation timed out has
\* returned the fallback.
C22_Witness ==
  /\ last.kind = "route" /\ last.outcome = "resolved" /\ last.fallback
  /\ last.invoked /\ last.fn = Throw([error |-> "Timeout"])
  /\ last.result = getFallbackResponse(Requests[last.req].task)

\* in this step the route call of slot s calls the resolver of tier type:
\* withBudget admits it and calls the operation, or refuses it and route
\* returns the fallback
Attempt(s, type) ==
  /\ calls[s].kind = "route" /\ calls[s].pc \in {"rules", "ret"}
  /\ ~calls[s].pending.thrown
  /\ \/ calls'[s].pc = "op" /\ calls'[s].tier = type
     \/ SettledNow /\ last'.id = calls[s].id /\ last'.fallback /\ last'.tier = type
\* the result the call of slot s is resumed with escalates
Escalates(s) ==
  calls[s].pending.v.uncertain \/ calls[s].pending.v.confidence < 70
\* the token ceiling the configuration gives a tier, the default estimate of
\* withBudget when it gives none
TierTokens(type) ==
  LET k == IF type = "expensive" THEN "AI_MAX_TOKENS_EXPENSIVE" ELSE "AI_MAX_TOKENS_CHEAP"
  IN  IF k \in DOMAIN config THEN config[k] ELSE DefaultEstimatedTokens

\* C24: within one route call the tiers are invoked in the order rules,
\* cheap, expensive.  The cheap tier is called only by a call resumed from
\* the rules tier, the expensive tier only by a call whose cheap operation
\* has completed with success and a result that escalates, and either only
\* while AI is enabled; the expensive tier is never called by a call resumed
\* from the rules tier.  The operation of a tier is only ever called by
\* withBudget, for that tier, with the token ceiling of that tier as estimate
\* and after the budget check has admitted it.
C24_TierOrder ==
  [][\A s \in Slots :
       /\ Attempt(s, "cheap")
          => /\ calls[s].pc = "rules" /\ calls[s].tiers = <<"rules">>
             /\ Escalates(s) /\ enabled
       /\ Attempt(s, "expensive")
          => /\ calls[s].pc = "ret" /\ calls[s].tier = "cheap"
             /\ calls[s].tiers = <<"rules", "cheap">>
             /\ calls[s].invoked /\ ~calls[s].fn.thrown /\ calls[s].pending = calls[s].fn
             /\ Escalates(s) /\ enabled
       /\ (calls[s].kind = "route" /\ calls[s].pc # "op" /\ calls'[s].pc = "op")
          => /\ Attempt(s, "cheap") \/ Attempt(s, "expensive")
             /\ calls'[s].tiers = Append(calls[s].tiers, calls'[s].tier)
             /\ calls'[s].invoked
             /\ calls'[s].est = TierTokens(calls'[s].tier)
             /\ WithinBudget(calls'[s].est, calls'[s].tier)]_vars

\* C24 witness: a route call has gone through the three tiers and returned
\* the result of the expensive tier.
C24_Witness ==
  /\ last.kind = "route" /\ last.outcome = "resolved" /\ ~last.fallback
  /\ last.tiers = <<"rules", "cheap", "expensive">>
  /\ last.result.source = "expensive-model"

\* the route call of slot s is resumed in this step
RouteResumed(s) == calls[s].kind = "route" /\ calls'[s].pc # calls[s].pc
\* AI_ENABLE is on and a provider credential is configured
AIConfigured == config["AI_ENABLE"] /\ config["OPENAI_API_KEY"] # <<>>

\* C25: the enabled flag of the router is truthy exactly when AI_ENABLE is on
\* and a provider credential is configured.  While it is not, no step of a
\* route call (its start or any of its resumptions) calls withBudget or the
\* operation of a tier, or changes dailyTokens, totalTokens, cheapCalls or
\* expensiveCalls.
C25_DisabledFrame ==
  /\ enabled <=> AIConfigured
  /\ [][ /\ enabled' <=> AIConfigured
         /\ ~AIConfigured
            => /\ (Started /\ NewCall.kind = "route")
                  => Counters(stats') = Counters(stats)
               /\ \A s \in Slots :
                    RouteResumed(s)
                    => /\ Counters(stats') = Counters(stats)
                       /\ calls'[s].pc # "op"
                       /\ SettledNow => ~last'.invoked /\ last'.tiers = <<"rules">>
                       /\ ~calls'[s].invoked ]_vars

\* C25 witness: AI_ENABLE is on but no credential is configured, and a route
\* call has returned the uncertain result of the rules tier without a tier
\* operation; nothing has been charged.
C25_Witness ==
  /\ config["AI_ENABLE"] /\ config["OPENAI_API_KEY"] = <<>>
  /\ last.kind = "route" /\ last.outcome = "resolved" /\ ~last.hit /\ ~last.fallback
  /\ last.result.uncertain /\ ~last.invoked
  /\ Counters(stats) = <<0, 0, 0, 0>>

\* the route call of slot s is resumed in this step with a result at one of
\* the two places where route asks whether to escalate, AI being enabled
EscalationDecided(s) ==
  /\ calls[s].kind = "route" /\ calls[s].pc \in {"rules", "ret"}
  /\ calls'[s].pc # calls[s].pc
  /\ ~calls[s].pending.thrown
  /\ calls[s].pc = "ret" => calls[s].tier = "cheap"
  /\ enabled

\* C26: with AI enabled, route goes on to the next tier exactly when the
\* result it holds is marked uncertain or has a confidence below 0.7, after
\* the rules tier and after the cheap tier alike; a result of confidence
\* exactly 0.7 that is not marked uncertain (what the cheap tier returns) is
\* returned as it is.
C26_EscalationThreshold ==
  [][\A s \in Slots :
       EscalationDecided(s)
       => /\ (Attempt(s, "cheap") \/ Attempt(s, "expensive")) <=> Escalates(s)
          /\ (~calls[s].pending.v.uncertain /\ calls[s].pending.v.confidence = 70)
             => /\ SettledNow /\ last'.id = calls[s].id
                /\ last'.result = calls[s].pending.v]_vars

\* C26 witness: a route call has returned the cheap tier's result of
\* confidence exactly 0.7 without calling the expensive tier.
C26_Witness ==
  /\ last.kind = "route" /\ last.outcome = "resolved" /\ ~last.fallback
  /\ last.tiers = <<"rules", "cheap">>
  /\ last.result.confidence = 70 /\ ~last.result.uncertain

\* C27: the cache size getStats reports is the number of entries stored,
\* expired ones included.  An entry leaves the cache only in a cacheGet on
\* its own key made once it has expired, or in a clearCache; the passing of
\* time alone removes nothing.
C27_CacheSize ==
  [][ /\ Called("getStats") => last'.result.cacheSize = Cardinality(DOMAIN cache)
      /\ \A k \in DOMAIN cache :
           k \notin DOMAIN cache'
           => \/ Called("cacheGet") /\ last'.key = k /\ cache[k].expiry <= now
              \/ Called("clearCache")
      /\ now' # now => cache' = cache ]_vars

\* C27 witness: getStats has counted an entry that had expired and had not
\* been read since.
C27_Witness ==
  /\ last.kind = "getStats"
  /\ last.result.cacheSize = 1
  /\ \E k \in DOMAIN cache : cache[k].expiry <= last.at

\* C28: in every reachable state, also with several guarded operations in
\* flight at once, dailyTokens is at most the daily token ceiling.
C28_DailyCeilingHolds == stats.dailyTokens <= guardConfig["maxDailyTokens"]

\* this step starts a route call that is answered from the cache with the
\* entry stored by the call that settled last
AnsweredFromLast ==
  /\ Started /\ NewCall.kind = "route" /\ NewCall.hit
  /\ last.kind = "route" /\ last.outcome = "resolved" /\ ~last.hit /\ ~last.fallback
  /\ last.key = NewCall.key

\* C29: a result that route returns from the cache was computed for the same
\* task and the same input: a request answered with the entry that an earlier
\* request stored has the task and the input record of that request.
C29_CachedForSameInput ==
  [][AnsweredFromLast
     => /\ Requests[NewCall.req].task = Requests[last.req].task
        /\ Requests[NewCall.req].input = Requests[last.req].input]_vars

\* C30: of two route calls with the same fingerprint in flight at once, at
\* most one has its paid tier operation called: the operation for a
\* fingerprint is never called for a second call while another call of that
\* fingerprint, whose operation was called, is still in flight.
C30_SingleFlight ==
  \A s, t \in Slots :
    (/\ s # t
     /\ calls[s].kind = "route" /\ calls[t].kind = "route"
     /\ calls[s].key = calls[t].key
     /\ calls[s].invoked)
    => ~calls[t].invoked

\* the guarded operation of the call that settled last completed with success
\* on the date of the clock
CompletedToday ==
  /\ last.kind \in {"route", "budget"}
  /\ last.outcome = "resolved" /\ last.invoked /\ ~last.fallback
  /\ toDateString(last.at) = toDateString(now)

\* C31: once the lazy reset check has run on a date, dailyTokens holds the
\* tokens of the operations that completed with success on that date: the
\* reset that opens a date keeps the tokens of an operation that was
\* admitted before the date changed and completed after it.
C31_DailyMatchesDate ==
  [][(stats'.lastResetDate # stats.lastResetDate /\ CompletedToday)
     => stats'.dailyTokens >= last.est]_vars

\* the route call of slot s holds a cheap result that escalates and the guard
\* has no budget for the expensive tier
ExpensiveRefused(s) ==
  /\ calls[s].kind = "route" /\ calls[s].pc = "ret" /\ calls[s].tier = "cheap"
  /\ ~calls[s].pending.thrown /\ Escalates(s) /\ enabled
  /\ ~WithinBudget(TierTokens("expensive"), "expensive")
\* the route call of slot s is resumed with the error of its expensive tier
ExpensiveThrew(s) ==
  /\ calls[s].kind = "route" /\ calls[s].pc = "ret" /\ calls[s].tier = "expensive"
  /\ calls[s].pending.thrown

\* C32: when the cheap tier of a route call has succeeded with a result that
\* escalates and the expensive tier is then refused by the guard or throws,
\* the call returns the fallback of its task and not the cheap result, stores
\* nothing in the cache, and charges nothing for the expensive tier, neither
\* when the operation fails nor when route returns; the charge of the cheap
\* tier stays.
C32_ExpensiveFails ==
  [][\A s \in Slots :
       /\ (RouteResumed(s) /\ (ExpensiveRefused(s) \/ ExpensiveThrew(s)))
          => /\ SettledNow /\ last'.id = calls[s].id
             /\ last'.outcome = "resolved" /\ last'.fallback
             /\ last'.result = getFallbackResponse(Requests[calls[s].req].task)
             /\ cache' = cache
             /\ Counters(stats') = Counters(stats)
             /\ stats.cheapCalls >= 1
             /\ stats.totalTokens >= TierTokens("cheap")
       /\ (/\ calls[s].kind = "route" /\ calls[s].pc = "op"
           /\ calls[s].tier = "expensive"
           /\ calls'[s].pc = "ret" /\ calls'[s].pending.thrown)
          => stats' = stats]_vars

\* C32 witness: a call whose cheap operation was charged and whose expensive
\* tier the guard refused has returned the fallback; a second witness has the
\* expensive operation itself fail.
C32_Witness ==
  /\ last.kind = "route" /\ last.outcome = "resolved" /\ last.fallback
  /\ last.tier = "expensive"
  /\ last.tiers = <<"rules", "cheap">>
  /\ stats.cheapCalls = 1 /\ stats.expensiveCalls = 0
  /\ last.key \notin DOMAIN cache
C32_ThrewReached ==
  /\ last.kind = "route" /\ last.outcome = "resolved" /\ last.fallback
  /\ last.tiers = <<"rules", "cheap", "expensive">>
  /\ stats.cheapCalls = 1 /\ stats.expensiveCalls = 0

\* C33: the escalation predicate of the router and that of the guard give
\* the same answer for every value.
C33_PredicatesAgree ==
  (last.kind = "shouldEscalate") => (last.result.router = last.result.guard)

\* C34: in every reachable state dailyTokens <= totalTokens; totalTokens,
\* cheapCalls, expensiveCalls, cacheHits and cacheMisses never decrease,
\* whatever the operation (route, withBudget, getStats, clearCache, the daily
\* reset inside them); dailyTokens decreases only to 0, and only in a step
\* that finds the date of the clock different from lastResetDate.
C34_CountersMonotone ==
  /\ [](stats.dailyTokens <= stats.totalTokens)
  /\ [][ /\ stats'.totalTokens >= stats.totalTokens
         /\ stats'.cheapCalls >= stats.cheapCalls
         /\ stats'.expensiveCalls >= stats.expensiveCalls
         /\ stats'.cacheHits >= stats.cacheHits
         /\ stats'.cacheMisses >= stats.cacheMisses
         /\ stats'.dailyTokens < stats.dailyTokens
            => /\ stats'.dailyTokens = 0
               /\ stats.lastResetDate # toDateString(now)
               /\ stats'.lastResetDate = toDateString(now) ]_vars

\* C34 witness: the day's tokens were reset to 0 on a new date while the
\* total and the call counters kept their values.
C34_Witness ==
  /\ stats.dailyTokens = 0 /\ stats.totalTokens > 0
  /\ stats.cheapCalls + stats.expensiveCalls > 0
  /\ stats.lastResetDate = toDateString(now) /\ now >= SecondsPerDay

\* this step starts a route call whose fingerprint is computed
RouteLooksUp == Started /\ NewCall.kind = "route" /\ NewCall.key # Nothing
\* the route call that settled last had a clearCache run while it awaited a
\* tier, and stored its result after it (in AdminSpec clearCache is the only
\* operation called while a call is in flight)
StoredAfterClear ==
  /\ last.kind = "route" /\ last.outcome = "resolved" /\ ~last.hit /\ ~last.fallback
  /\ ~last.alone

\* C36 as stated: the first route call for any fingerprint started after a
\* clearCache misses the cache, also when a call for that fingerprint was in
\* flight during the clearCache.
C36_Original ==
  [][(RouteLooksUp /\ StoredAfterClear /\ NewCall.key = last.key) => ~NewCall.hit]_vars

\* C36: clearCache removes every entry, reports the new size 0 and changes
\* nothing of the statistics: the budget state and the hit and miss counters
\* stay.  A route call started when a clearCache is the operation that
\* completed last (no call has stored a result since) misses the cache and
\* runs the rules tier again, whatever its fingerprint.
C36_ClearCache ==
  [][ /\ Called("clearCache")
         => /\ cache' = EmptyCache
            /\ last'.result = [cleared |-> TRUE, newSize |-> 0]
            /\ stats' = stats
      /\ (RouteLooksUp /\ last.kind = "clearCache")
         => /\ ~NewCall.hit
            /\ stats'.cacheMisses = stats.cacheMisses + 1
            /\ calls'[1].pc = "rules" /\ calls'[1].tiers = <<"rules">> ]_vars

\* C36 witness: a route call whose fingerprint had an entry when clearCache
\* ran has missed the cache and is running the rules tier; the misses and the
\* tokens charged before the clearCache are still counted.
C36_Witness ==
  /\ last.kind = "clearCache"
  /\ last.pending.entries # {}
  /\ calls[1].kind = "route" /\ calls[1].pc = "rules"
  /\ calls[1].key \in last.pending.entries
  /\ stats.cacheMisses = 2 /\ stats.cacheHits = 0

\* the configuration passed to the construction call that has just returned
Passed == last'.pending
Constructing == Called("getCostGuard") \/ Called("newAIRouter") \/ Called("getAIRouter")

\* C35: the process has one guard and one cache.  The first getCostGuard,
\* getAIRouter or AIRouter construction makes the guard from the
\* configuration it is passed; every later one, whatever configuration it is
\* passed, gets that guard with its ceilings, cache and statistics as they
\* are.  getAIRouter returns the router its first call made and ignores the
\* configuration of later calls; an AIRouter constructed directly has the
\* configuration it is passed and the shared guard.
C35_Singletons ==
  [][ /\ guardConfig # Nothing => guardConfig' = guardConfig
      /\ (Constructing /\ guardConfig = Nothing)
         => /\ guardConfig' = GuardConfig(Passed)
            /\ cache' = EmptyCache /\ stats' = InitialStats(now)
      /\ (Constructing /\ guardConfig # Nothing) => (cache' = cache /\ stats' = stats)
      /\ aiRouterInstance # Nothing => aiRouterInstance' = aiRouterInstance
      /\ Called("getAIRouter")
         => /\ aiRouterInstance = Nothing
               => aiRouterInstance' = [config |-> Passed, enabled |-> Enabled(Passed)]
            /\ config' = aiRouterInstance'.config /\ enabled' = aiRouterInstance'.enabled
            /\ last'.result = aiRouterInstance'
      /\ Called("newAIRouter")
         => /\ config' = Passed /\ enabled' = Enabled(Passed)
            /\ aiRouterInstance' = aiRouterInstance ]_vars

\* C35 witness: a route call made on a router constructed directly with
\* another configuration than the first was served from the cache the first
\* router filled, under the ceilings of the first construction.
C35_Witness ==
  /\ last.kind = "route" /\ last.hit
  /\ aiRouterInstance # Nothing /\ config # aiRouterInstance.config
  /\ guardConfig = GuardConfig(aiRouterInstance.config)
  /\ guardConfig # GuardConfig(config)
====
